---------------------------- MODULE Spec2Model ----------------------------
(***************************************************************************)
(* LoAT: the simplification-by-acceleration-and-chaining driver            *)
(* (Analysis::run of src/analysis/analysis.cpp and LinearITSAnalysis::run  *)
(* of src/strategy/linear.cpp) over an abstract rule store.                *)
(*                                                                         *)
(* A rule of the store is kept at the level the drivers look at it:        *)
(*   idx   its TransIdx (assigned increasingly, never reused),             *)
(*   from  its source location,                                            *)
(*   to    the locations of its right-hand sides (one for a linear rule),  *)
(*         kept sorted, as the order of the calls plays no role here,      *)
(*   cpx   cost.getComplexity(), the cheap class of its cost,              *)
(*   temp  whether its cost mentions a temporary variable.                 *)
(* Guards and updates are not represented: what the SMT solver, the        *)
(* metering engine and the asymptotic prover decide about them is a        *)
(* nondeterministic input of the action that asks.                         *)
(*                                                                         *)
(* The build modelled is the default one: FINAL_INFINITY_CHECK and         *)
(* PRUNING_ENABLE are defined.                                             *)
(***************************************************************************)
EXTENDS Integers, Sequences, FiniteSets, TLC

(* ------------------------------ bounds --------------------------------- *)

\* locations of the input problem are 1..MaxLoc (location 1 is the start)
MaxLoc == 2
\* number of rules of the input problem
MaxInitRules == 2
\* cap on the rule indices: a transformation that would need more adds nothing
MaxIdx == 8
\* right-hand sides a chained rule may have: a longer chain is not built
MaxRhs == 2

(* --------------------------- complexity -------------------------------- *)

Unknown == 0
Const == 1
Poly1 == 2
Poly2 == 3
Exp == 4
Infty == 5

Complexities == Unknown..Infty

Max(a, b) == IF a >= b THEN a ELSE b

(* ------------------------------ state ---------------------------------- *)

VARIABLES
    driver,             \* "Analysis" or "Linear": whose run() this is
    locs,               \* the locations are 1..locs
    initial,            \* its.getInitialLocation()
    rules,              \* the rules of the store
    nextIdx,            \* the next TransIdx addRule hands out
    soft, hard,         \* Timeout::soft(), Timeout::hard() (raised from outside)
    pc,                 \* position in run()
    changed,            \* run: bool changed
    acceleratedOnce,    \* run: bool acceleratedOnce
    nonlinearProblem,   \* run: bool nonlinearProblem
    acceleratedRules,   \* run: set<TransIdx> acceleratedRules
    node,               \* accelerateSimpleLoops: the location the loop is at
    accRes,             \* accelerateSimpleLoops: bool res
    todo,               \* the rule indices a scan still has to visit, in order
    succs,              \* getMaxPartialResult: successor locations still to contract
    firsts,             \* getMaxPartialResult: rules initial -> succ still to chain
    seconds,            \* getMaxPartialResult: rules from succ still to chain with first
    res,                \* the extractor's RuntimeResult res
    runtime,            \* run: RuntimeResult runtime
    ops,                \* history: the transformations of the current inner iteration
    hist,               \* history: facts about the run so far
    text,               \* parser: the text handed to escapeVarname or parseRule
    parsed,             \* parser: what it made of the text
    loader,             \* loadFromFile: its locals and the Problem it builds
    callee,             \* a function of Recurrence or Relation and its arguments
    returned,           \* what the function returned
    varMan              \* the variables of the problem: names in index order

analysisVars == <<driver, locs, initial, rules, nextIdx, soft, hard, pc,
                  changed, acceleratedOnce, nonlinearProblem, acceleratedRules, node,
                  accRes, todo, succs, firsts, seconds, res, runtime, ops, hist>>

parserVars == <<text, parsed, loader>>

libVars == <<callee, returned, varMan>>

vars == <<analysisVars, parserVars, libVars>>

(* --------------------------- the rule store ---------------------------- *)

Targets(r) == {r.to[i] : i \in DOMAIN r.to}

RulesFrom(R, l) == {r \in R : r.from = l}

RulesTo(R, l) == {r \in R : l \in Targets(r)}

RulesFromTo(R, a, b) == {r \in R : r.from = a /\ b \in Targets(r)}

SuccessorLocations(R, l) == UNION {Targets(r) : r \in RulesFrom(R, l)}

IsLinearStore(R) == \A r \in R : Len(r.to) = 1

IsLinear == IsLinearStore(rules)

IsEmpty == RulesFrom(rules, initial) = {}

IsSimplifiedStore(R, n, init) ==
    \A l \in 1..n : l # init => RulesFrom(R, l) = {}

Idxs(R) == {r.idx : r \in R}

RuleAt(R, i) == CHOOSE r \in R : r.idx = i

Min(S) == CHOOSE x \in S : \A y \in S : x <= y

RECURSIVE Ascending(_)
Ascending(S) == IF S = {} THEN <<>>
                ELSE <<Min(S)>> \o Ascending(S \ {Min(S)})

RECURSIVE Insert(_, _)
Insert(s, x) == IF s = <<>> THEN <<x>>
                ELSE IF x <= Head(s) THEN <<x>> \o s
                ELSE <<Head(s)>> \o Insert(Tail(s), x)

RECURSIVE Sorted(_)
Sorted(s) == IF s = <<>> THEN <<>> ELSE Insert(Sorted(Tail(s)), Head(s))


(* ------------- the transformations the drivers call (store level) ------ *)

\* every operator below maps a store to [rules |-> ..., next |-> ...]

Store(R, n) == [rules |-> R, next |-> n]

NewRule(i, f, t, c, tmp) == [idx |-> i, from |-> f, to |-> t, cpx |-> c, temp |-> tmp]

Reindexed(r, i) == NewRule(i, r.from, r.to, r.cpx, r.temp)

\* Rule::dummyRule(from, to): no guard, no update, cost 0
DummyRule(i, f, t) == NewRule(i, f, <<t>>, Const, FALSE)

IsSimpleLoop(r) == r.to = <<r.from>>

\* the right-hand sides of first with every call of second's source replaced
\* by the right-hand sides of second
RECURSIVE Splice(_, _, _)
Splice(s, l, t) ==
    IF s = <<>> THEN <<>>
    ELSE (IF Head(s) = l THEN t ELSE <<Head(s)>>) \o Splice(Tail(s), l, t)

\* Chaining::chainRules(first, second): from first's source to second's
\* targets, cost first.cost + second.cost[first.update]
ChainRules(first, second, i) ==
    NewRule(i, first.from, Sorted(Splice(first.to, second.from, second.to)),
            Max(first.cpx, second.cpx), first.temp \/ second.temp)

\* chainRules yields no rule when the solver refutes the combined guard
\* (unsat: the rules whose guard is refuted after any first rule) or when the
\* result would have more right-hand sides than the model keeps
CanChain(first, second, unsat) ==
    /\ second.from \in Targets(first)
    /\ second.idx \notin unsat
    /\ Len(Splice(first.to, second.from, second.to)) <= MaxRhs

\* the pairs (first, second) of Ins x Outs, by index
PairsOf(Ins, Outs) ==
    LET K == MaxIdx + 1
        code == {r.idx * K + q.idx : r \in Ins, q \in Outs}
        s == Ascending(code)
    IN  [k \in DOMAIN s |-> <<RuleAt(Ins, s[k] \div K), RuleAt(Outs, s[k] % K)>>]

\* add the chain of every pair that can be chained, in order; used collects
\* the first rules of the chains built
RECURSIVE AddChains(_, _, _, _, _)
AddChains(R, n, pairs, unsat, used) ==
    IF pairs = <<>> THEN [rules |-> R, next |-> n, used |-> used]
    ELSE LET first == Head(pairs)[1]
             second == Head(pairs)[2]
         IN  IF CanChain(first, second, unsat) /\ n <= MaxIdx
             THEN AddChains(R \cup {ChainRules(first, second, n)}, n + 1,
                            Tail(pairs), unsat, used \cup {first})
             ELSE AddChains(R, n, Tail(pairs), unsat, used)

\* the locations reachable from init
RECURSIVE ReachableFrom(_, _)
ReachableFrom(R, S) ==
    LET T == S \cup UNION {Targets(r) : r \in {q \in R : q.from \in S}}
    IN  IF T = S THEN S ELSE ReachableFrom(R, T)

\* Pruning::removeLeafsAndUnreachable: rules from unreachable locations go,
\* and so do constant-cost rules into locations without outgoing rules
RECURSIVE RemoveLeafs(_)
RemoveLeafs(R) ==
    LET leafs == {r \in R : /\ r.cpx <= Const
                            /\ \A t \in Targets(r) : RulesFrom(R, t) = {}}
    IN  IF leafs = {} THEN R ELSE RemoveLeafs(R \ leafs)

RemoveLeafsAndUnreachable(R, init) ==
    RemoveLeafs({r \in R : r.from \in ReachableFrom(R, {init})})

\* Pruning::removeSinkRhss: a nonlinear rule loses the right-hand sides that
\* lead to locations without outgoing rules (one is kept if all of them do)
StripSinks(R, r) ==
    LET live == SelectSeq(r.to, LAMBDA t : RulesFrom(R, t) # {})
    IN  IF Len(r.to) = 1 THEN r
        ELSE NewRule(r.idx, r.from, IF live = <<>> THEN <<r.to[1]>> ELSE live,
                     r.cpx, r.temp)

RemoveSinkRhss(R) == {StripSinks(R, r) : r \in R}

\* two rules the store cannot tell apart but by guard and update
Alike(r, q) == r.from = q.from /\ r.to = q.to /\ r.cpx = q.cpx /\ r.temp = q.temp

\* Pruning::removeDuplicateRules(its, cand, compareUpdates): what it may
\* remove: rules of cand that have a duplicate of lower index left in cand
DuplicateChoices(cand) ==
    {D \in SUBSET cand :
        \A r \in D : \E q \in cand \ D : q.idx < r.idx /\ Alike(r, q)}

\* Pruning::pruneParallelRules: what it may remove: rules that a parallel
\* rule of at least their complexity dominates
ParallelChoices(R) ==
    {D \in SUBSET R :
        \A b \in D : \E a \in R \ D :
            a.from = b.from /\ a.to = b.to /\ a.cpx >= b.cpx}

\* Chaining::chainLinearPaths: a location other than init with exactly one
\* incoming and one outgoing rule, both linear, is replaced by their chain
LinearPathAt(R, init, m, unsat) ==
    /\ m # init
    /\ Cardinality(RulesTo(R, m)) = 1
    /\ Cardinality(RulesFrom(R, m)) = 1
    /\ RulesTo(R, m) # RulesFrom(R, m)
    /\ \A r \in RulesTo(R, m) \cup RulesFrom(R, m) : Len(r.to) = 1
    /\ \A r \in RulesTo(R, m) : \A q \in RulesFrom(R, m) : CanChain(r, q, unsat)

RECURSIVE ChainLinearPaths(_, _, _, _, _)
ChainLinearPaths(R, n, nlocs, init, unsat) ==
    LET ms == {m \in 1..nlocs : LinearPathAt(R, init, m, unsat)}
        m == Min(ms)
        in == CHOOSE r \in RulesTo(R, m) : TRUE
        out == CHOOSE r \in RulesFrom(R, m) : TRUE
    IN  IF ms = {} \/ n > MaxIdx THEN Store(R, n)
        ELSE ChainLinearPaths((R \ {in, out}) \cup {ChainRules(in, out, n)},
                              n + 1, nlocs, init, unsat)

\* the elimination of location m: every incoming rule is chained with every
\* outgoing rule that is no loop at m, and the rules at m are removed
EliminateLocation(R, n, m, unsat) ==
    LET Ins == RulesTo(R, m) \ RulesFrom(R, m)
        Outs == {r \in RulesFrom(R, m) : m \notin Targets(r)}
        S == AddChains(R, n, PairsOf(Ins, Outs), unsat, {})
    IN  Store(S.rules \ (RulesTo(R, m) \cup RulesFrom(R, m)), S.next)

\* Chaining::chainTreePaths: locations without loops are eliminated while
\* the chained rules fit the budget
TreePathAt(R, n, init, m) ==
    /\ m # init
    /\ RulesTo(R, m) # {}
    /\ RulesFrom(R, m) # {}
    /\ \A r \in RulesFrom(R, m) : m \notin Targets(r)
    /\ n + Cardinality(RulesTo(R, m)) * Cardinality(RulesFrom(R, m)) - 1 <= MaxIdx

RECURSIVE ChainTreePaths(_, _, _, _, _)
ChainTreePaths(R, n, ms, init, unsat) ==
    IF ms = <<>> THEN Store(R, n)
    ELSE IF TreePathAt(R, n, init, Head(ms))
         THEN LET S == EliminateLocation(R, n, Head(ms), unsat)
              IN  ChainTreePaths(S.rules, S.next, Tail(ms), init, unsat)
         ELSE ChainTreePaths(R, n, Tail(ms), init, unsat)

\* Chaining::eliminateALocation: the location with the fewest chains to
\* build (loops counted twice) is eliminated, loops or not
ElimWeight(R, m) ==
    Cardinality(RulesTo(R, m)) * Cardinality(RulesFrom(R, m))
    + 2 * Cardinality(RulesTo(R, m) \cap RulesFrom(R, m))

ElimCandidates(R, nlocs, init) ==
    {m \in 1..nlocs : m # init /\ RulesTo(R, m) \ RulesFrom(R, m) # {}
                               /\ RulesFrom(R, m) # {}}

EliminateALocation(R, n, nlocs, init, unsat) ==
    LET C == ElimCandidates(R, nlocs, init)
        best == {m \in C : \A k \in C : ElimWeight(R, m) <= ElimWeight(R, k)}
    IN  IF C = {} THEN Store(R, n)
        ELSE EliminateLocation(R, n, Min(best), unsat)

\* Chaining::chainAcceleratedRules(its, accel, keepIncoming): every
\* accelerated loop is chained with the rules that enter its location and are
\* not accelerated themselves; the accelerated loops are removed, and so are
\* the incoming rules that were chained unless keepIncoming
ChainAcceleratedRules(R, n, accel, keepIncoming, unsat) ==
    LET Acc == {r \in R : r.idx \in accel}
        Ins == {r \in R \ Acc : \E a \in Acc : a.from \in Targets(r)}
        S == AddChains(R, n, PairsOf(Ins, Acc), unsat, {})
    IN  Store(S.rules \ (Acc \cup IF keepIncoming THEN {} ELSE S.used), S.next)

\* removeConstantPathsImpl(its, curr, visited): the depth-first walk of
\* removeConstantPathsAfterTimeout; stop is Timeout::hard()
RECURSIVE RemoveConstantPathsImpl(_, _, _, _), RemoveConstantPathsLoop(_, _, _, _, _)
RemoveConstantPathsImpl(R, curr, visited, stop) ==
    IF curr \in visited THEN [rules |-> R, visited |-> visited, ret |-> TRUE]
    ELSE RemoveConstantPathsLoop(R, curr, visited \cup {curr},
                                 Ascending(SuccessorLocations(R, curr)), stop)

RemoveConstantPathsLoop(R, curr, visited, nexts, stop) ==
    IF nexts = <<>>
    THEN [rules |-> R, visited |-> visited, ret |-> RulesFrom(R, curr) = {}]
    ELSE IF stop THEN [rules |-> R, visited |-> visited, ret |-> FALSE]
    ELSE LET sub == RemoveConstantPathsImpl(R, Head(nexts), visited, stop)
             gone == IF sub.ret
                     THEN {r \in RulesFromTo(sub.rules, curr, Head(nexts)) :
                               r.cpx <= Const}
                     ELSE {}
         IN  RemoveConstantPathsLoop(sub.rules \ gone, curr, sub.visited,
                                     Tail(nexts), stop)

(* ------------------------------ inputs --------------------------------- *)

\* the costs of input rules: the default cost 1, or a cost that mentions a
\* temporary variable
InputCosts == {[cpx |-> Const, temp |-> FALSE], [cpx |-> Poly1, temp |-> TRUE]}

InputLocs == 1..MaxLoc

LinearRhss == {<<l>> : l \in InputLocs}

\* an input rule with two calls (Com_2)
BranchRhss == {<<a, b>> : a \in InputLocs, b \in InputLocs}

InputRules(d) ==
    {NewRule(0, f, t, c.cpx, c.temp) :
        f \in InputLocs, c \in InputCosts,
        t \in LinearRhss \cup IF d = "Analysis"
                              THEN {u \in BranchRhss : u[1] <= u[2]} ELSE {}}

\* the place of a rule in the input file: rules are listed by source and
\* right-hand sides
Key(r) == (r.from * (MaxLoc + 1) + r.to[1]) * (MaxLoc + 1)
          + IF Len(r.to) > 1 THEN r.to[2] ELSE 0

\* the input problems: up to MaxInitRules rules, at most one with two calls
InputProblems(d) ==
    {s \in UNION {[1..k -> InputRules(d)] : k \in 0..MaxInitRules} :
        /\ \A i \in DOMAIN s : i > 1 => Key(s[i - 1]) <= Key(s[i])
        /\ Cardinality({i \in DOMAIN s : Len(s[i].to) > 1}) <= 1}

(* ------------------------- results and history ------------------------- *)

\* RuntimeResult(): unknown complexity, no bound, no guard
DefaultResult == [cpx |-> Unknown, bound |-> <<"none", 0>>, guard |-> <<"empty", 0>>]

\* the result taken from the prover's answer c for rule i
ProvedResult(c, i) == [cpx |-> c, bound |-> <<"cost", i>>, guard |-> <<"guard", i>>]

\* the parser is not at work while run() is: no text, no result
NoTree == [op |-> "none", name |-> "", args |-> <<>>]

NoRule == [lhs |-> <<>>, rhs |-> NoTree, cost |-> <<>>, guard |-> <<>>]

NoText == [kind |-> "none", toks |-> <<>>]

NoOut == [kind |-> "none", ok |-> FALSE, name |-> <<>>, rule |-> NoRule]

\* no function of Recurrence or Relation is being called
NoCall == [fn |-> "none"]

\* a problem without variables: vars and freeVars are empty; added is the
\* history of the last call (base name, index returned)
NoVariables == [variables |-> <<>>, temporaryVariables |-> {},
                added |-> [basename |-> <<>>, idx |-> 0]]

\* the declarations read so far
NoDecls == [vars |-> 0, start |-> 0, goal |-> 0]

\* loadFromFile before its first line: has_vars = has_goal = has_start = false,
\* in_rules = false, startTerm and res.rules empty, no function symbols
NewLoader == [pc |-> "getline",
              has_vars |-> FALSE, has_goal |-> FALSE, has_start |-> FALSE,
              in_rules |-> FALSE,
              startTerm |-> <<>>,
              rules |-> <<>>,
              functionSymbols |-> <<>>,    \* the names, at index 0, 1, ...
              functionSymbolMap |-> {},    \* the pairs <<name, index>>
              occurrences |-> {},    \* history: <<name, index>> as the rules use them
              read |-> 0,            \* history: the lines read
              decls |-> NoDecls,     \* history: the declarations read
              first |-> NoDecls]     \* history: decls when the first rule was parsed

\* loadFromFile is not running
NoLoader == [NewLoader EXCEPT !.pc = "idle"]

InitHist == [empty |-> FALSE,       \* run returned at the isEmpty() test
             softSeen |-> FALSE,    \* a checkpoint of the inner loop saw soft()
             hardAtPoll |-> FALSE,  \* hard() was raised at a checkpoint of the loop
             accelerated |-> FALSE, \* an acceleration step has succeeded
             seenLinear |-> FALSE,  \* run has found its.isLinear() to hold
             sinkOnLinear |-> FALSE, \* removeSinkRhss was called on a linear store
             accelNew |-> {},       \* rules accelerated in this inner iteration
             chainArg |-> <<{}, TRUE>>, \* arguments of chainAcceleratedRules
             dedup |-> FALSE,       \* removeDuplicateRules(from initial, false) done
             extractors |-> {},     \* the extractors entered
             submitted |-> {},      \* rules given to the asymptotic prover
             answered |-> Unknown,  \* the highest class the prover has answered
             scanned |-> {},        \* rules a scan of getMaxPartialResult evaluated
             cut |-> {}]            \* rules removeConstantPathsAfterTimeout removed

Init ==
    /\ driver \in {"Analysis", "Linear"}
    /\ locs = MaxLoc
    /\ initial = 1
    /\ \E s \in InputProblems(driver) :
          /\ rules = {Reindexed(s[i], i) : i \in DOMAIN s}
          /\ nextIdx = Len(s) + 1
    /\ soft = FALSE
    /\ hard = FALSE
    /\ pc = "ensureProperInitialLocation"
    /\ changed = FALSE
    /\ acceleratedOnce = FALSE
    /\ nonlinearProblem = FALSE
    /\ acceleratedRules = {}
    /\ node = 0
    /\ accRes = FALSE
    /\ todo = <<>>
    /\ succs = <<>>
    /\ firsts = <<>>
    /\ seconds = <<>>
    /\ res = DefaultResult
    /\ runtime = DefaultResult
    /\ ops = <<>>
    /\ hist = InitHist
    /\ text = NoText
    /\ loader = NoLoader
    /\ callee = NoCall
    /\ returned = NoCall
    /\ varMan = NoVariables
    /\ parsed = NoOut

storeVars == <<locs, initial, rules, nextIdx>>
loopVars == <<changed, acceleratedOnce, nonlinearProblem, acceleratedRules, node, accRes>>
scanVars == <<todo, succs, firsts, seconds, res>>
timeouts == <<soft, hard>>

IsFullySimplified == IsSimplifiedStore(rules, locs, initial)

\* a poll that would leave the loop on either timeout
EitherBreak == soft \/ hard

\* if (Timeout::soft()) break;
SoftBreak == soft

\* the step executes transformation op, which reports ch
Log(op, ch) == ops' = Append(ops, [op |-> op, changed |-> ch])

\* what the history keeps of passing a checkpoint of the simplification loop
AtCheckpoint(inner) ==
    [hist EXCEPT !.softSeen = @ \/ (inner /\ SoftBreak), !.hardAtPoll = @ \/ hard]

(* ------------------------ run(): before the loop ----------------------- *)

\* ensureProperInitialLocation without its.setInitialLocation(newStart)
EnsureInitialKept ==
    /\ pc = "ensureProperInitialLocation"
    /\ IF RulesTo(rules, initial) # {}
       THEN /\ locs' = locs + 1
            /\ rules' = rules \cup {DummyRule(nextIdx, locs + 1, initial)}
            /\ nextIdx' = nextIdx + 1
            /\ initial' = initial
       ELSE UNCHANGED storeVars
    /\ pc' = "removeUnsatInitialRules"
    /\ UNCHANGED <<parserVars, libVars, driver, timeouts, loopVars, scanVars, runtime, ops, hist>>

\* Analysis::ensureProperInitialLocation, LinearITSAnalysis::ensureProperInitialLocation
EnsureProperInitialLocation ==
    /\ pc = "ensureProperInitialLocation"
    /\ IF RulesTo(rules, initial) # {}
       THEN /\ locs' = locs + 1
            /\ rules' = rules \cup {DummyRule(nextIdx, locs + 1, initial)}
            /\ nextIdx' = nextIdx + 1
            /\ initial' = locs + 1
       ELSE UNCHANGED storeVars
    /\ pc' = "removeUnsatInitialRules"
    /\ UNCHANGED <<parserVars, libVars, driver, timeouts, loopVars, scanVars, runtime, ops, hist>>

\* Pruning::removeUnsatInitialRules: the rules from the initial location
\* whose guard the solver refutes are removed
RemoveUnsatInitialRules ==
    /\ pc = "removeUnsatInitialRules"
    /\ \E unsat \in SUBSET RulesFrom(rules, initial) : rules' = rules \ unsat
    /\ pc' = "isEmpty"
    /\ UNCHANGED <<parserVars, libVars, driver, locs, initial, nextIdx, timeouts, loopVars, scanVars,
                   runtime, ops, hist>>

\* run: the locals, and the return of the default result for an empty ITS
ReturnIfEmpty ==
    /\ pc = "isEmpty"
    /\ runtime' = DefaultResult
    /\ acceleratedOnce' = FALSE
    /\ nonlinearProblem' = IF driver = "Analysis" THEN ~IsLinear ELSE FALSE
    /\ hist' = [hist EXCEPT !.empty = IsEmpty,
                            !.seenLinear = driver = "Analysis" /\ IsLinear]
    /\ pc' = IF IsEmpty THEN "done" ELSE "preprocessRules"
    /\ UNCHANGED <<parserVars, libVars, driver, storeVars, timeouts, changed, acceleratedRules, node,
                   accRes, scanVars, ops>>

\* run: if (cfg.doPreprocessing) preprocessRules(): unreachable rules and
\* constant leafs are removed, then duplicates between each pair of locations
PreprocessRules ==
    /\ pc = "preprocessRules"
    /\ \E doPreprocessing \in BOOLEAN :
          IF doPreprocessing
          THEN \E D \in DuplicateChoices(RemoveLeafsAndUnreachable(rules, initial)) :
                  rules' = RemoveLeafsAndUnreachable(rules, initial) \ D
          ELSE rules' = rules
    /\ pc' = "while"
    /\ UNCHANGED <<parserVars, libVars, driver, locs, initial, nextIdx, timeouts, loopVars, scanVars,
                   runtime, ops, hist>>

(* ---------------------- run(): the simplification loop ----------------- *)

\* the start of an iteration of do { ... } while (changed)
DoBegin ==
    /\ changed' = FALSE
    /\ acceleratedRules' = {}
    /\ node' = 1
    /\ accRes' = FALSE
    /\ ops' = <<>>
    /\ pc' = IF driver = "Analysis" THEN "removeSinkRhss" ELSE "accelerateSimpleLoops"

\* while (!isFullySimplified())
While ==
    /\ pc = "while"
    /\ IF IsFullySimplified
       THEN /\ pc' = "afterLoop"
            /\ UNCHANGED <<changed, acceleratedRules, node, accRes, ops, hist>>
       ELSE /\ DoBegin
            /\ hist' = [hist EXCEPT !.accelNew = {}]
    /\ UNCHANGED <<parserVars, libVars, driver, storeVars, timeouts, acceleratedOnce, nonlinearProblem,
                   scanVars, runtime>>

\* removeSinkRhss called whatever nonlinearProblem says
RemoveSinkRhssAlways ==
    /\ pc = "removeSinkRhss"
    /\ rules' = RemoveSinkRhss(rules)
    /\ changed' = (changed \/ rules' # rules)
    /\ Log("removeSinkRhss", rules' # rules)
    /\ hist' = [AtCheckpoint(TRUE) EXCEPT !.sinkOnLinear = @ \/ IsLinear]
    /\ pc' = IF SoftBreak THEN "afterInner" ELSE "accelerateSimpleLoops"
    /\ UNCHANGED <<parserVars, libVars, driver, locs, initial, nextIdx, timeouts, acceleratedOnce,
                   nonlinearProblem, acceleratedRules, node, accRes, scanVars, runtime>>

\* if (nonlinearProblem && Pruning::removeSinkRhss(its)) changed = true;
\* if (Timeout::soft()) break;
RemoveSinkRhssStep ==
    /\ pc = "removeSinkRhss"
    /\ IF nonlinearProblem
       THEN /\ rules' = RemoveSinkRhss(rules)
            /\ changed' = (changed \/ rules' # rules)
            /\ Log("removeSinkRhss", rules' # rules)
       ELSE UNCHANGED <<rules, changed, ops>>
    /\ hist' = [AtCheckpoint(TRUE) EXCEPT
                   !.sinkOnLinear = @ \/ (nonlinearProblem /\ IsLinear)]
    /\ pc' = IF SoftBreak THEN "afterInner" ELSE "accelerateSimpleLoops"
    /\ UNCHANGED <<parserVars, libVars, driver, locs, initial, nextIdx, timeouts, acceleratedOnce,
                   nonlinearProblem, acceleratedRules, node, accRes, scanVars, runtime>>

\* the class of the cost of the accelerated rule
AcceleratedRule(r, i, inf) ==
    NewRule(i, r.from, r.to, IF inf \/ r.cpx = Infty THEN Infty ELSE r.cpx + 1,
            r.temp /\ ~inf)

\* Accelerator::accelerateSimpleLoops(its, node, acceleratedRules): the loops
\* of A are replaced by accelerated rules, which are recorded
AccelerateAt(A, inf) ==
    LET s == Ascending(Idxs(A))
        new == {AcceleratedRule(RuleAt(A, s[k]), nextIdx + k - 1, inf) : k \in DOMAIN s}
    IN  [rules |-> (rules \ A) \cup new, next |-> nextIdx + Len(s), new |-> Idxs(new)]

\* accelerateSimpleLoops: one location per step, then if (Timeout::soft())
\* return res; after the last one, run sets changed and acceleratedOnce and
\* passes its checkpoint
AccelerateSimpleLoops ==
    /\ pc = "accelerateSimpleLoops"
    /\ \E A \in SUBSET {r \in RulesFrom(rules, node) : IsSimpleLoop(r)}, inf \in BOOLEAN :
          LET S == AccelerateAt(A, inf)
              r == accRes \/ A # {}
          IN  /\ nextIdx + Cardinality(A) - 1 <= MaxIdx
              /\ inf => A # {}
              /\ rules' = S.rules
              /\ nextIdx' = S.next
              /\ acceleratedRules' = acceleratedRules \cup S.new
              /\ IF SoftBreak \/ node >= locs
                 THEN /\ changed' = (changed \/ r)
                      /\ acceleratedOnce' = (acceleratedOnce \/ r)
                      /\ Log("accelerateSimpleLoops", r)
                      /\ hist' = [AtCheckpoint(TRUE) EXCEPT
                                     !.accelerated = @ \/ r,
                                     !.accelNew = @ \cup S.new]
                      /\ pc' = IF SoftBreak THEN "afterInner" ELSE "chainAcceleratedLoops"
                      /\ node' = 1
                      /\ accRes' = FALSE
                 ELSE /\ node' = node + 1
                      /\ accRes' = r
                      /\ hist' = [hist EXCEPT !.accelNew = @ \cup S.new]
                      /\ UNCHANGED <<changed, acceleratedOnce, ops, pc>>
    /\ UNCHANGED <<parserVars, libVars, driver, locs, initial, timeouts, nonlinearProblem, scanVars, runtime>>

\* the call with keepIncoming = true
ChainAcceleratedLoopsKeeping(unsat) ==
    [store |-> ChainAcceleratedRules(rules, nextIdx, acceleratedRules, TRUE, unsat),
     arg |-> <<acceleratedRules, TRUE>>]

\* Analysis::chainAcceleratedLoops(acceleratedRules): the call
\* Chaining::chainAcceleratedRules(its, acceleratedRules, false)
\* (LinearITSAnalysis::chainSimpleLoops: Chaining::chainSimpleLoops(its))
ChainAcceleratedLoopsCall(unsat) ==
    [store |-> ChainAcceleratedRules(rules, nextIdx, acceleratedRules, FALSE, unsat),
     arg |-> <<acceleratedRules, FALSE>>]

ChainAcceleratedLoops ==
    /\ pc = "chainAcceleratedLoops"
    /\ \E unsat \in SUBSET acceleratedRules :
          LET C == ChainAcceleratedLoopsCall(unsat)
          IN  /\ rules' = C.store.rules
              /\ nextIdx' = C.store.next
              /\ hist' = [AtCheckpoint(TRUE) EXCEPT !.chainArg = C.arg]
    /\ changed' = (changed \/ rules' # rules)
    /\ Log(IF driver = "Analysis" THEN "chainAcceleratedRules" ELSE "chainSimpleLoops",
           rules' # rules)
    /\ pc' = IF SoftBreak THEN "afterInner"
             ELSE IF driver = "Analysis" THEN "removeLeafsAndUnreachable"
             ELSE "chainLinearPaths"
    /\ UNCHANGED <<parserVars, libVars, driver, locs, initial, timeouts, acceleratedOnce, nonlinearProblem,
                   acceleratedRules, node, accRes, scanVars, runtime>>

\* if (Pruning::removeLeafsAndUnreachable(its)) changed = true;
\* if (Timeout::soft()) break;
RemoveLeafsAndUnreachableStep ==
    /\ pc = "removeLeafsAndUnreachable"
    /\ rules' = RemoveLeafsAndUnreachable(rules, initial)
    /\ changed' = (changed \/ rules' # rules)
    /\ Log("removeLeafsAndUnreachable", rules' # rules)
    /\ hist' = AtCheckpoint(TRUE)
    /\ pc' = IF SoftBreak THEN "afterInner" ELSE "chainLinearPaths"
    /\ UNCHANGED <<parserVars, libVars, driver, locs, initial, nextIdx, timeouts, acceleratedOnce,
                   nonlinearProblem, acceleratedRules, node, accRes, scanVars, runtime>>

\* the rules a chaining strategy may find unsatisfiable after another rule
Inner(R, init) == {r.idx : r \in {q \in R : q.from # init}}

\* if (chainLinearPaths()) changed = true; if (Timeout::soft()) break;
ChainLinearPathsStep ==
    /\ pc = "chainLinearPaths"
    /\ \E unsat \in SUBSET Inner(rules, initial) :
          LET S == ChainLinearPaths(rules, nextIdx, locs, initial, unsat)
          IN  rules' = S.rules /\ nextIdx' = S.next
    /\ changed' = (changed \/ rules' # rules)
    /\ Log("chainLinearPaths", rules' # rules)
    /\ hist' = AtCheckpoint(TRUE)
    /\ pc' = IF SoftBreak THEN "afterInner" ELSE "whileChanged"
    /\ UNCHANGED <<parserVars, libVars, driver, locs, initial, timeouts, acceleratedOnce, nonlinearProblem,
                   acceleratedRules, node, accRes, scanVars, runtime>>

\* if (changed && nonlinearProblem) nonlinearProblem = !its.isLinear();
\* } while (changed);
WhileChanged ==
    /\ pc = "whileChanged"
    /\ nonlinearProblem' = IF changed /\ nonlinearProblem THEN ~IsLinear
                           ELSE nonlinearProblem
    /\ IF changed
       THEN /\ DoBegin
            /\ hist' = [hist EXCEPT !.accelNew = {},
                           !.seenLinear = @ \/ (nonlinearProblem /\ IsLinear)]
       ELSE /\ pc' = "afterInner"
            /\ UNCHANGED <<changed, acceleratedRules, node, accRes, ops, hist>>
    /\ UNCHANGED <<parserVars, libVars, driver, storeVars, timeouts, acceleratedOnce, scanVars, runtime>>

\* the outer loop left as soon as the inner loop has ended
AfterInnerLeaves ==
    /\ pc = "afterInner"
    /\ pc' = "afterLoop"
    /\ UNCHANGED <<parserVars, libVars, driver, storeVars, timeouts, loopVars, scanVars, runtime, ops, hist>>

\* Analysis::run: if (isFullySimplified()) break; (LinearITSAnalysis::run
\* goes on to chainTreePaths at once)
AfterInner ==
    /\ pc = "afterInner"
    /\ pc' = IF driver = "Analysis" /\ IsFullySimplified THEN "afterLoop"
             ELSE "chainTreePaths"
    /\ UNCHANGED <<parserVars, libVars, driver, storeVars, timeouts, loopVars, scanVars, runtime, ops, hist>>

\* chainTreePaths followed by continue when it succeeds
ChainTreePathsContinue ==
    /\ pc = "chainTreePaths"
    /\ \E unsat \in SUBSET Inner(rules, initial) :
          LET S == ChainTreePaths(rules, nextIdx, Ascending(1..locs), initial, unsat)
          IN  rules' = S.rules /\ nextIdx' = S.next
    /\ Log("chainTreePaths", rules' # rules)
    /\ hist' = hist
    /\ pc' = IF rules' # rules THEN "while" ELSE "eliminateALocation"
    /\ UNCHANGED <<parserVars, libVars, driver, locs, initial, timeouts, loopVars, scanVars, runtime>>

\* if (chainTreePaths()) { } else if (eliminateALocation()) { }
\* if (Timeout::soft()) break;
ChainTreePathsStep ==
    /\ pc = "chainTreePaths"
    /\ \E unsat \in SUBSET Inner(rules, initial) :
          LET S == ChainTreePaths(rules, nextIdx, Ascending(1..locs), initial, unsat)
          IN  rules' = S.rules /\ nextIdx' = S.next
    /\ Log("chainTreePaths", rules' # rules)
    /\ IF rules' # rules
       THEN /\ hist' = AtCheckpoint(FALSE)
            /\ pc' = IF SoftBreak THEN "afterLoop" ELSE "pruneRules"
       ELSE /\ hist' = hist
            /\ pc' = "eliminateALocation"
    /\ UNCHANGED <<parserVars, libVars, driver, locs, initial, timeouts, loopVars, scanVars, runtime>>

EliminateALocationStep ==
    /\ pc = "eliminateALocation"
    /\ \E unsat \in SUBSET Inner(rules, initial) :
          LET S == EliminateALocation(rules, nextIdx, locs, initial, unsat)
          IN  rules' = S.rules /\ nextIdx' = S.next
    /\ Log("eliminateALocation", rules' # rules)
    /\ hist' = AtCheckpoint(FALSE)
    /\ pc' = IF SoftBreak THEN "afterLoop" ELSE "pruneRules"
    /\ UNCHANGED <<parserVars, libVars, driver, locs, initial, timeouts, loopVars, scanVars, runtime>>

\* pruneRules() whatever acceleratedOnce says
PruneRulesAlways ==
    /\ pc = "pruneRules"
    /\ \E D \in ParallelChoices(RemoveLeafsAndUnreachable(rules, initial)) :
          rules' = RemoveLeafsAndUnreachable(rules, initial) \ D
    /\ Log("pruneRules", rules' # rules)
    /\ hist' = AtCheckpoint(FALSE)
    /\ pc' = IF SoftBreak THEN "afterLoop" ELSE "while"
    /\ UNCHANGED <<parserVars, libVars, driver, locs, initial, nextIdx, timeouts, loopVars,
                   scanVars, runtime>>

\* Analysis::run: if (acceleratedOnce && pruneRules()) { }
\* LinearITSAnalysis::run: if (pruneRules()) { }
\* if (Timeout::soft()) break;
PruneRulesStep ==
    /\ pc = "pruneRules"
    /\ IF driver = "Linear" \/ acceleratedOnce
       THEN /\ \E D \in ParallelChoices(RemoveLeafsAndUnreachable(rules, initial)) :
                  rules' = RemoveLeafsAndUnreachable(rules, initial) \ D
            /\ Log("pruneRules", rules' # rules)
       ELSE UNCHANGED <<rules, ops>>
    /\ hist' = AtCheckpoint(FALSE)
    /\ pc' = IF SoftBreak THEN "afterLoop" ELSE "while"
    /\ UNCHANGED <<parserVars, libVars, driver, locs, initial, nextIdx, timeouts, loopVars,
                   scanVars, runtime>>

(* ------------------------ run(): after the loop ------------------------ *)

\* the extractor chosen by Timeout::soft() instead of isFullySimplified()
AfterLoopOnTimeout ==
    /\ pc = "afterLoop"
    /\ IF IsFullySimplified
       THEN /\ \E D \in DuplicateChoices(RulesFrom(rules, initial)) : rules' = rules \ D
            /\ hist' = [hist EXCEPT !.dedup = TRUE]
       ELSE UNCHANGED <<rules, hist>>
    /\ pc' = IF soft THEN "removeConstantPathsAfterTimeout" ELSE "getMaxRuntime"
    /\ UNCHANGED <<parserVars, libVars, driver, locs, initial, nextIdx, timeouts, loopVars, scanVars,
                   runtime, ops>>

\* if (isFullySimplified()) Pruning::removeDuplicateRules(its,
\*     its.getTransitionsFrom(its.getInitialLocation()), false);
\* if (!isFullySimplified()) { removeConstantPathsAfterTimeout(); runtime =
\*     getMaxPartialResult(); } else { runtime = getMaxRuntime(); }
AfterLoop ==
    /\ pc = "afterLoop"
    /\ IF IsFullySimplified
       THEN /\ \E D \in DuplicateChoices(RulesFrom(rules, initial)) : rules' = rules \ D
            /\ hist' = [hist EXCEPT !.dedup = TRUE]
       ELSE UNCHANGED <<rules, hist>>
    /\ pc' = IF IsSimplifiedStore(rules', locs, initial) THEN "getMaxRuntime"
             ELSE "removeConstantPathsAfterTimeout"
    /\ UNCHANGED <<parserVars, libVars, driver, locs, initial, nextIdx, timeouts, loopVars, scanVars,
                   runtime, ops>>

\* the skip of LinearITSAnalysis taken by both drivers
SkipsRuleOnClassAlone(r, best) == r.cpx <= best

\* whether the scan of getMaxRuntime passes over rule r without a prover call
\* Analysis: if (cpxUpperbound <= res.cpx && !hasTempVar) continue;
\* LinearITSAnalysis: if (cpxUpperbound <= res.cpx) continue;
SkipsRule(r, best) ==
    IF driver = "Analysis" THEN r.cpx <= best /\ ~r.temp ELSE r.cpx <= best

\* whether the scan of getMaxPartialResult passes over rule r
SkipsRulePartial(r, best) ==
    IF driver = "Analysis" THEN r.cpx <= Max(best, Const) /\ ~r.temp
    ELSE r.cpx <= Max(best, Const)

\* AsymptoticBound::determineComplexity(its, guard, cost, true): the classes
\* it may answer for the cost of rule r; cost.getComplexity() "gives an
\* upperbound", but "temp variables ... can lead to unbounded cost"
ProverClasses(r) == {c \in Complexities : r.temp \/ c <= r.cpx}

\* if (checkRes.cpx > res.cpx) { res.cpx = checkRes.cpx; ... }
Improved(best, c, i) == IF c > best.cpx THEN ProvedResult(c, i) ELSE best

\* getMaxRuntime: auto rules = its.getTransitionsFrom(its.getInitialLocation());
\* RuntimeResult res;
GetMaxRuntime ==
    /\ pc = "getMaxRuntime"
    /\ todo' = Ascending(Idxs(RulesFrom(rules, initial)))
    /\ res' = DefaultResult
    /\ hist' = [hist EXCEPT !.extractors = @ \cup {"getMaxRuntime"}, !.submitted = {},
                            !.answered = Unknown]
    /\ pc' = "maxRuntimeLoop"
    /\ UNCHANGED <<parserVars, libVars, driver, storeVars, timeouts, loopVars, succs, firsts, seconds,
                   runtime, ops>>

\* getMaxRuntime: one round of for (TransIdx ruleIdx : rules), or the return
MaxRuntimeLoop ==
    /\ pc = "maxRuntimeLoop"
    /\ IF todo = <<>>
       THEN /\ runtime' = res
            /\ pc' = "coerce"
            /\ UNCHANGED <<todo, res, hist>>
       ELSE LET rule == RuleAt(rules, Head(todo))
            IN  IF SkipsRule(rule, res.cpx)
                THEN /\ todo' = Tail(todo)
                     /\ UNCHANGED <<res, runtime, pc, hist>>
                ELSE \E c \in ProverClasses(rule) :
                        /\ res' = Improved(res, c, rule.idx)
                        /\ hist' = [hist EXCEPT !.submitted = @ \cup {rule.idx},
                                                !.answered = Max(@, c)]
                        /\ IF (c > res.cpx /\ c >= Infty) \/ hard
                           THEN /\ runtime' = res'
                                /\ pc' = "coerce"
                                /\ todo' = <<>>
                           ELSE /\ todo' = Tail(todo)
                                /\ UNCHANGED <<runtime, pc>>
    /\ UNCHANGED <<parserVars, libVars, driver, storeVars, timeouts, loopVars, succs, firsts, seconds, ops>>

\* the removal of every rule of constant cost, wherever it leads
RemoveConstantRulesAfterTimeout ==
    /\ pc = "removeConstantPathsAfterTimeout"
    /\ rules' = {r \in rules : r.cpx > Const}
    /\ hist' = [hist EXCEPT !.cut = rules \ rules']
    /\ pc' = "getMaxPartialResult"
    /\ UNCHANGED <<parserVars, libVars, driver, locs, initial, nextIdx, timeouts, loopVars, scanVars,
                   runtime, ops>>

\* removeConstantPathsAfterTimeout()
RemoveConstantPathsAfterTimeout ==
    /\ pc = "removeConstantPathsAfterTimeout"
    /\ rules' = RemoveConstantPathsImpl(rules, initial, {}, hard).rules
    /\ hist' = [hist EXCEPT !.cut = rules \ rules']
    /\ pc' = "getMaxPartialResult"
    /\ UNCHANGED <<parserVars, libVars, driver, locs, initial, nextIdx, timeouts, loopVars, scanVars,
                   runtime, ops>>

\* a poll that never aborts
NeverAbort == FALSE

\* getMaxPartialResult: if (Timeout::hard()) goto abort;
HardAbort == hard

\* the index of a rule added by the chaining from the start location: the
\* next index, or, once the indices of the model are used up, the least index
\* that no rule of the store bears (0 if there is none)
ChainIdx ==
    IF nextIdx <= MaxIdx THEN nextIdx
    ELSE IF (1..MaxIdx) \ Idxs(rules) = {} THEN 0
    ELSE Min((1..MaxIdx) \ Idxs(rules))

\* getMaxPartialResult: RuntimeResult res; then the head of while (true):
\* if (Timeout::hard()) goto abort; and the start of the scan
GetMaxPartialResult ==
    /\ pc = "getMaxPartialResult"
    /\ res' = DefaultResult
    /\ hist' = [hist EXCEPT !.extractors = @ \cup {"getMaxPartialResult"},
                            !.submitted = {}, !.answered = Unknown,
                            !.scanned = {}]
    /\ pc' = "partialWhile"
    /\ UNCHANGED <<parserVars, libVars, driver, storeVars, timeouts, loopVars, todo, succs, firsts,
                   seconds, runtime, ops>>

\* the head of while (true) polling the soft timeout
PartialWhileOnSoft ==
    /\ pc = "partialWhile"
    /\ IF soft
       THEN /\ runtime' = res
            /\ pc' = "coerce"
            /\ UNCHANGED todo
       ELSE /\ todo' = Ascending(Idxs(RulesFrom(rules, initial)))
            /\ pc' = "partialScan"
            /\ UNCHANGED runtime
    /\ UNCHANGED <<parserVars, libVars, driver, storeVars, timeouts, loopVars, succs, firsts, seconds,
                   res, ops, hist>>

PartialWhile ==
    /\ pc = "partialWhile"
    /\ IF HardAbort
       THEN /\ runtime' = res
            /\ pc' = "coerce"
            /\ UNCHANGED todo
       ELSE /\ todo' = Ascending(Idxs(RulesFrom(rules, initial)))
            /\ pc' = "partialScan"
            /\ UNCHANGED runtime
    /\ UNCHANGED <<parserVars, libVars, driver, storeVars, timeouts, loopVars, succs, firsts, seconds,
                   res, ops, hist>>

\* getMaxPartialResult: one round of for (TransIdx trans : ...), or, after
\* the last, auto succs = its.getSuccessorLocations(initial);
\* if (succs.empty()) goto done;
PartialScan ==
    /\ pc = "partialScan"
    /\ IF todo = <<>>
       THEN LET ss == Ascending(SuccessorLocations(rules, initial))
            IN  /\ succs' = ss
                /\ IF ss = <<>>
                   THEN /\ runtime' = res
                        /\ pc' = "coerce"
                        /\ UNCHANGED <<firsts, seconds>>
                   ELSE /\ firsts' = Ascending(Idxs(RulesFromTo(rules, initial, Head(ss))))
                        /\ seconds' = Ascending(Idxs(RulesFrom(rules, Head(ss))))
                        /\ pc' = "partialChain"
                        /\ UNCHANGED runtime
                /\ UNCHANGED <<todo, res, hist>>
       ELSE LET rule == RuleAt(rules, Head(todo))
            IN  /\ UNCHANGED <<succs, firsts, seconds>>
                /\ IF SkipsRulePartial(rule, res.cpx)
                   THEN /\ todo' = Tail(todo)
                        /\ hist' = [hist EXCEPT !.scanned = @ \cup {rule.idx}]
                        /\ UNCHANGED <<res, runtime, pc>>
                   ELSE \E c \in ProverClasses(rule) :
                           /\ res' = Improved(res, c, rule.idx)
                           /\ hist' = [hist EXCEPT !.submitted = @ \cup {rule.idx},
                                                !.answered = Max(@, c),
                                                !.scanned = @ \cup {rule.idx}]
                           /\ IF (c > res.cpx /\ c >= Infty) \/ HardAbort
                              THEN /\ runtime' = res'
                                   /\ pc' = "coerce"
                                   /\ todo' = <<>>
                              ELSE /\ todo' = Tail(todo)
                                   /\ UNCHANGED <<runtime, pc>>
    /\ UNCHANGED <<parserVars, libVars, driver, storeVars, timeouts, loopVars, ops>>

\* getMaxPartialResult: one step of the chaining from the start location:
\* a chain of first with the next second (then the hard timeout is polled),
\* or its.removeRule(first) after the last second, or the next successor
PartialChain ==
    /\ pc = "partialChain"
    /\ IF firsts = <<>>
       THEN /\ succs' = Tail(succs)
            /\ IF Tail(succs) = <<>>
               THEN /\ pc' = "partialWhile"
                    /\ UNCHANGED <<firsts, seconds>>
               ELSE /\ firsts' = Ascending(Idxs(RulesFromTo(rules, initial, succs[2])))
                    /\ seconds' = Ascending(Idxs(RulesFrom(rules, succs[2])))
                    /\ UNCHANGED pc
            /\ UNCHANGED <<rules, nextIdx, runtime, hist>>
       ELSE IF seconds = <<>>
       THEN /\ rules' = rules \ {RuleAt(rules, Head(firsts))}
            /\ firsts' = Tail(firsts)
            /\ seconds' = IF Tail(firsts) = <<>> THEN <<>>
                          ELSE Ascending(Idxs(RulesFrom(rules', Head(succs))))
            /\ UNCHANGED <<succs, nextIdx, runtime, pc, hist>>
       ELSE /\ \E sat \in BOOLEAN :
                 LET first == RuleAt(rules, Head(firsts))
                     second == RuleAt(rules, Head(seconds))
                 IN  IF sat /\ CanChain(first, second, {}) /\ ChainIdx # 0
                     THEN /\ rules' = rules \cup {ChainRules(first, second, ChainIdx)}
                          /\ nextIdx' = IF nextIdx <= MaxIdx THEN nextIdx + 1
                                        ELSE nextIdx
                          /\ hist' = [hist EXCEPT !.submitted = @ \ {ChainIdx},
                                                  !.scanned = @ \ {ChainIdx}]
                     ELSE UNCHANGED <<rules, nextIdx, hist>>
            /\ IF HardAbort
               THEN /\ runtime' = res
                    /\ pc' = "coerce"
                    /\ succs' = <<>>
                    /\ firsts' = <<>>
                    /\ seconds' = <<>>
               ELSE /\ seconds' = Tail(seconds)
                    /\ UNCHANGED <<succs, firsts, runtime, pc>>
    /\ UNCHANGED <<parserVars, libVars, driver, locs, initial, timeouts, loopVars, todo, res, ops>>

\* the step to (Const, 1) taken for every class up to Const
CoerceUpToConst ==
    /\ pc = "coerce"
    /\ runtime' = IF runtime.cpx <= Const
                  THEN [cpx |-> Const, bound |-> <<"one", 0>>, guard |-> <<"empty", 0>>]
                  ELSE runtime
    /\ pc' = "done"
    /\ UNCHANGED <<parserVars, libVars, driver, storeVars, timeouts, loopVars, scanVars, ops, hist>>

\* return runtime; without the step from Unknown to Const
CoerceUnknownKept ==
    /\ pc = "coerce"
    /\ pc' = "done"
    /\ UNCHANGED <<parserVars, libVars, driver, storeVars, timeouts, loopVars, scanVars, runtime, ops, hist>>

\* if (runtime.cpx == Complexity::Unknown) { runtime.cpx = Complexity::Const;
\* runtime.bound = Expression(1); runtime.guard.clear(); } return runtime;
Coerce ==
    /\ pc = "coerce"
    /\ runtime' = IF runtime.cpx = Unknown
                  THEN [cpx |-> Const, bound |-> <<"one", 0>>, guard |-> <<"empty", 0>>]
                  ELSE runtime
    /\ pc' = "done"
    /\ UNCHANGED <<parserVars, libVars, driver, storeVars, timeouts, loopVars, scanVars, ops, hist>>

(* ------------------------------ timeouts ------------------------------- *)

\* the soft and the hard timeout are raised from outside, at any time, and
\* stay raised
SoftTimeout ==
    /\ pc # "done"
    /\ ~soft
    /\ soft' = TRUE
    /\ UNCHANGED <<parserVars, libVars, driver, storeVars, hard, pc, loopVars, scanVars, runtime, ops, hist>>

HardTimeout ==
    /\ pc # "done"
    /\ ~hard
    /\ hard' = TRUE
    /\ UNCHANGED <<parserVars, libVars, driver, storeVars, soft, pc, loopVars, scanVars, runtime, ops, hist>>

Next ==
    \/ EnsureProperInitialLocation
    \/ RemoveUnsatInitialRules
    \/ ReturnIfEmpty
    \/ PreprocessRules
    \/ While
    \/ RemoveSinkRhssStep
    \/ AccelerateSimpleLoops
    \/ ChainAcceleratedLoops
    \/ RemoveLeafsAndUnreachableStep
    \/ ChainLinearPathsStep
    \/ WhileChanged
    \/ AfterInner
    \/ ChainTreePathsStep
    \/ EliminateALocationStep
    \/ PruneRulesStep
    \/ AfterLoop
    \/ GetMaxRuntime
    \/ MaxRuntimeLoop
    \/ RemoveConstantPathsAfterTimeout
    \/ GetMaxPartialResult
    \/ PartialWhile
    \/ PartialScan
    \/ PartialChain
    \/ Coerce
    \/ SoftTimeout
    \/ HardTimeout

Spec == Init /\ [][Next]_vars

\* a step of run() itself: every transformation and every prover call returns
Step ==
    \/ EnsureProperInitialLocation
    \/ RemoveUnsatInitialRules
    \/ ReturnIfEmpty
    \/ PreprocessRules
    \/ While
    \/ RemoveSinkRhssStep
    \/ AccelerateSimpleLoops
    \/ ChainAcceleratedLoops
    \/ RemoveLeafsAndUnreachableStep
    \/ ChainLinearPathsStep
    \/ WhileChanged
    \/ AfterInner
    \/ ChainTreePathsStep
    \/ EliminateALocationStep
    \/ PruneRulesStep
    \/ AfterLoop
    \/ GetMaxRuntime
    \/ MaxRuntimeLoop
    \/ RemoveConstantPathsAfterTimeout
    \/ GetMaxPartialResult
    \/ PartialWhile
    \/ PartialScan
    \/ PartialChain
    \/ Coerce

\* run() keeps executing until it returns: weak fairness of Step, written
\* out. Step is enabled unless pc = "done", and the steps of Step are the
\* steps that leave both timeouts as they are.
RunAdvances ==
    []<>(pc = "done") \/ []<><<soft' = soft /\ hard' = hard>>_vars

\* run() keeps executing, and both time budgets run out at some time
FairSpec ==
    /\ Init
    /\ [][Step \/ SoftTimeout \/ HardTimeout]_vars
    /\ RunAdvances
    /\ WF_vars(SoftTimeout)
    /\ WF_vars(HardTimeout)

(* ------------- runs whose soft timeout is up from the start ------------ *)

\* The partial-result path on larger problems: linear problems of up to
\* SoftRules rules over SoftLocs locations, no two rules between the same pair
\* of locations, none leading back to an earlier location and at most one
\* loop, analysed by Analysis::run with a soft time budget that is used up when
\* run() starts.
SoftLocs == 4
SoftRules == 5

SoftInputRules ==
    {NewRule(0, f, <<t>>, c.cpx, c.temp) :
        f \in 1..SoftLocs, t \in 2..SoftLocs, c \in InputCosts}

SoftKey(r) == r.from * (SoftLocs + 1) + r.to[1]

RECURSIVE SoftProblems(_)
SoftProblems(k) ==
    IF k = 0 THEN {<<>>}
    ELSE LET P == SoftProblems(k - 1)
             ext == {x \in {p \in P : Len(p) = k - 1} \X SoftInputRules :
                        /\ x[2].from <= x[2].to[1]
                        /\ x[1] # <<>> => SoftKey(x[1][k - 1]) < SoftKey(x[2])}
         IN  P \cup {Append(x[1], x[2]) : x \in ext}

\* the loops of a problem
SoftLoops(s) == {i \in DOMAIN s : s[i].to = <<s[i].from>>}

SoftInit ==
    /\ driver = "Analysis"
    /\ locs = SoftLocs
    /\ initial = 1
    /\ \E s \in SoftProblems(SoftRules) :
          /\ Cardinality(SoftLoops(s)) <= 1
          /\ rules = {Reindexed(s[i], i) : i \in DOMAIN s}
          /\ nextIdx = Len(s) + 1
    /\ soft = TRUE
    /\ hard = FALSE
    /\ pc = "ensureProperInitialLocation"
    /\ changed = FALSE
    /\ acceleratedOnce = FALSE
    /\ nonlinearProblem = FALSE
    /\ acceleratedRules = {}
    /\ node = 0
    /\ accRes = FALSE
    /\ todo = <<>>
    /\ succs = <<>>
    /\ firsts = <<>>
    /\ seconds = <<>>
    /\ res = DefaultResult
    /\ runtime = DefaultResult
    /\ ops = <<>>
    /\ hist = InitHist
    /\ text = NoText
    /\ loader = NoLoader
    /\ callee = NoCall
    /\ returned = NoCall
    /\ varMan = NoVariables
    /\ parsed = NoOut

\* the steps such a run can take
SoftNext ==
    \/ EnsureProperInitialLocation
    \/ RemoveUnsatInitialRules
    \/ ReturnIfEmpty
    \/ PreprocessRules
    \/ While
    \/ RemoveSinkRhssStep
    \/ AfterInner
    \/ ChainTreePathsStep
    \/ EliminateALocationStep
    \/ AfterLoop
    \/ GetMaxRuntime
    \/ MaxRuntimeLoop
    \/ RemoveConstantPathsAfterTimeout
    \/ GetMaxPartialResult
    \/ PartialWhile
    \/ PartialScan
    \/ PartialChain
    \/ Coerce
    \/ HardTimeout

SoftSpec == SoftInit /\ [][SoftNext]_vars

(* --------------------- the parser (src/itrs/itrs.cpp) ------------------ *)

\* A text is a sequence of characters; in a rule the multi-character symbols
\* of the format ("->", "-{", "}>", "&&", "/\\", ":|:", "TRUE", "Com_1",
\* "Com_2") and the names are one element each, and blanks are left out.

\* cap on the length of a variable name
MaxName == 3

\* isalpha, isdigit and isalnum on the characters of the model
Letters == {"a", "I", "Q", "q"}

Digits == {"7"}

NameChars == Letters \cup Digits \cup {"_", "$"}

IsAlpha(c) == c \in Letters

IsAlnum(c) == c \in Letters \cup Digits

\* escapeVarname without the prefix for a name that starts with no letter
EscapeVarnameUnprefixed(name) ==
    [i \in DOMAIN name |->
        LET c == IF name[i] = "I" THEN "Q" ELSE name[i]
        IN  IF ~IsAlnum(c) THEN "_" ELSE c]

\* escapeVarname(name): if (name[i] == 'I') name[i] = 'Q';
\* if (!isalnum(name[i])) name[i] = '_'; then if (!isalpha(name[0])) name = "q" + name
EscapeVarname(name) ==
    LET e == [i \in DOMAIN name |->
                 LET c == IF name[i] = "I" THEN "Q" ELSE name[i]
                 IN  IF ~IsAlnum(c) THEN "_" ELSE c]
    IN  IF ~IsAlpha(e[1]) THEN <<"q">> \o e ELSE e

\* the names of the VAR declaration: non-empty words
InputNames == UNION {[1..n -> NameChars] : n \in 1..MaxName}

\* the variables the VAR declaration has made known, and the names of the
\* function symbols
KnownVars == {"x"}

FunNames == {"f", "g"}

Numbers == {"0", "1"}

Toks(s) == {s[i] : i \in DOMAIN s}

\* string::find: the first position of t in s, 0 for npos
Find(s, t) ==
    IF t \in Toks(s) THEN CHOOSE i \in DOMAIN s : s[i] = t /\ \A j \in 1..(i - 1) : s[j] # t
    ELSE 0

\* the first position in s of a symbol of T, 0 if there is none
FindAny(s, T) ==
    IF Toks(s) \cap T # {}
    THEN CHOOSE i \in DOMAIN s : s[i] \in T /\ \A j \in 1..(i - 1) : s[j] \notin T
    ELSE 0

\* the pieces of s between the symbols of T
RECURSIVE SplitAt(_, _)
SplitAt(s, T) ==
    LET pos == FindAny(s, T)
    IN  IF pos = 0 THEN <<s>>
        ELSE <<SubSeq(s, 1, pos - 1)>> \o SplitAt(SubSeq(s, pos + 1, Len(s)), T)

\* the term trees of the right-hand sides
Tree(op, name, args) == [op |-> op, name |-> name, args |-> args]

\* the result of a parsing function of the term parser: whether it returned
\* (or threw), the tree, and the input from the current symbol on
Parsed(tree, rest) == [ok |-> TRUE, tree |-> tree, rest |-> rest]

Thrown == [ok |-> FALSE, tree |-> NoTree, rest |-> <<>>]

\* the Symbol that nextSymbol makes of the next element of the input
SymbolOf(s) ==
    IF s = <<>> THEN "END"
    ELSE IF Head(s) \in Numbers THEN "NUMBER"
    ELSE IF Head(s) \in FunNames \cup KnownVars \cup {"y"}
         THEN IF Len(s) > 1 /\ s[2] = "(" THEN "FUNCTIONSYMBOL" ELSE "VARIABLE"
    ELSE IF Head(s) = "+" THEN "PLUS"
    ELSE IF Head(s) = "-" THEN "MINUS"
    ELSE IF Head(s) = "*" THEN "TIMES"
    ELSE IF Head(s) = "/" THEN "SLASH"
    ELSE IF Head(s) = "(" THEN "LPAREN"
    ELSE IF Head(s) = ")" THEN "RPAREN"
    ELSE IF Head(s) = "," THEN "COMMA"
    ELSE "UNKNOWN"

\* nextSymbol throws UnknownSymbolException when it reads any other character
Readable(s) == SymbolOf(s) # "UNKNOWN"

RECURSIVE Expression(_), ExpressionLoop(_), Term(_), TermLoop(_), Factor(_),
          Arguments(_, _)

\* The result of a call is bound as the one element of a set, so that it is
\* computed once however often the caller looks at it.

\* Problem::expression(): [+|-] term { (+|-) term }
Expression(s) ==
    LET negative == SymbolOf(s) = "MINUS"
        s1 == IF SymbolOf(s) \in {"PLUS", "MINUS"} THEN Tail(s) ELSE s
    IN  CHOOSE result \in
            {IF ~t.ok THEN Thrown
             ELSE IF negative
             THEN ExpressionLoop(
                      Parsed(Tree("mul", "", <<Tree("num", "-1", <<>>), t.tree>>), t.rest))
             ELSE ExpressionLoop(t) :
                 t \in {IF Readable(s1) THEN Term(s1) ELSE Thrown}} : TRUE

\* while (symbol == PLUS || symbol == MINUS) { nextSymbol(); temp = term(); ... }
ExpressionLoop(r) ==
    IF SymbolOf(r.rest) \notin {"PLUS", "MINUS"} THEN r
    ELSE CHOOSE result \in
             {IF ~t.ok THEN Thrown
              ELSE ExpressionLoop(
                       Parsed(Tree(IF SymbolOf(r.rest) = "MINUS" THEN "sub" ELSE "add",
                                   "", <<r.tree, t.tree>>), t.rest)) :
                  t \in {IF Readable(Tail(r.rest)) THEN Term(Tail(r.rest))
                         ELSE Thrown}} : TRUE

\* Problem::term(): factor { (*|/) factor }
Term(s) ==
    CHOOSE result \in {IF ~f.ok THEN Thrown ELSE TermLoop(f) : f \in {Factor(s)}} : TRUE

\* while (symbol == TIMES || symbol == SLASH) { nextSymbol();
\*     result = std::make_shared<Multiplication>(result, factor()); }
TermLoop(r) ==
    IF SymbolOf(r.rest) \notin {"TIMES", "SLASH"} THEN r
    ELSE CHOOSE result \in
             {IF ~f.ok THEN Thrown
              ELSE TermLoop(Parsed(Tree("mul", "", <<r.tree, f.tree>>), f.rest)) :
                  f \in {IF Readable(Tail(r.rest)) THEN Factor(Tail(r.rest))
                         ELSE Thrown}} : TRUE

\* do { args.push_back(expression()); } while (accept(COMMA)); expect(RPAREN);
Arguments(s, args) ==
    CHOOSE result \in
        {IF ~e.ok THEN Thrown
         ELSE IF SymbolOf(e.rest) = "COMMA"
              THEN IF Readable(Tail(e.rest))
                   THEN Arguments(Tail(e.rest), Append(args, e.tree))
                   ELSE Thrown
         ELSE IF SymbolOf(e.rest) = "RPAREN" /\ Readable(Tail(e.rest))
              THEN Parsed(Tree("args", "", Append(args, e.tree)), Tail(e.rest))
         ELSE Thrown :
             e \in {Expression(s)}} : TRUE

\* Problem::factor(): a function application, a known variable, a number or
\* an expression in parentheses
Factor(s) ==
    IF SymbolOf(s) = "FUNCTIONSYMBOL"
    THEN CHOOSE result \in
             {IF ~a.ok THEN Thrown
              ELSE Parsed(Tree("fun", Head(s), a.tree.args), a.rest) :
                  a \in {IF Readable(Tail(Tail(s))) THEN Arguments(Tail(Tail(s)), <<>>)
                         ELSE Thrown}} : TRUE
    ELSE IF SymbolOf(s) = "VARIABLE"
    THEN IF Head(s) \in KnownVars /\ Readable(Tail(s))
         THEN Parsed(Tree("var", Head(s), <<>>), Tail(s))
         ELSE Thrown
    ELSE IF SymbolOf(s) = "NUMBER"
    THEN IF Readable(Tail(s)) THEN Parsed(Tree("num", Head(s), <<>>), Tail(s))
         ELSE Thrown
    ELSE IF SymbolOf(s) = "LPAREN"
    THEN CHOOSE result \in
             {IF e.ok /\ SymbolOf(e.rest) = "RPAREN" /\ Readable(Tail(e.rest))
              THEN Parsed(e.tree, Tail(e.rest))
              ELSE Thrown :
                  e \in {IF Readable(Tail(s)) THEN Expression(Tail(s)) ELSE Thrown}} : TRUE
    ELSE Thrown

\* Problem::parseTerm(term): nextSymbol(); return expression(); what is left
\* of the input is not looked at
ParseTerm(s) == IF Readable(s) THEN Expression(s) ELSE Thrown

\* Expression::fromString(s, varSymbolList): whether the algebra library can
\* read s as an arithmetic expression over the known variables, or as a
\* relation between two of them
IsArithmetic(s) ==
    /\ Toks(s) \subseteq KnownVars \cup Numbers \cup {"+", "-", "*", "/", "(", ")"}
    /\ LET e == ParseTerm(s) IN e.ok /\ e.rest = <<>>

RelationSymbols == {">", "<", ">=", "<=", "=="}

FromString(s) ==
    LET pos == FindAny(s, RelationSymbols)
    IN  IF pos = 0 THEN IsArithmetic(s)
        ELSE /\ IsArithmetic(SubSeq(s, 1, pos - 1))
             /\ IsArithmetic(SubSeq(s, pos + 1, Len(s)))

\* parseFunapp(line, fun, args): the name before the first "(" and the
\* arguments between the commas; the line has to end with ")", and an
\* argument is empty only if it is the only one
ParseFunapp(line) ==
    LET pos == Find(line, "(")
        inner == SubSeq(line, pos + 1, Len(line) - 1)
        parts == SplitAt(inner, {","})
        args == IF parts = <<<<>>>> THEN <<>> ELSE parts
    IN  [ok |-> /\ pos # 0
                /\ line[Len(line)] = ")"
                /\ \A i \in DOMAIN args : args[i] # <<>>,
         fun |-> SubSeq(line, 1, pos - 1),
         args |-> args]

\* the names addFreshVariable("x", true) gives the variables that stand for
\* numbers on the left-hand side
FreshNames == <<"x_1", "x_2", "x_3">>

\* Problem::parseLhs(lhs): every argument has to be free of "/" and a known
\* variable or a number; a number becomes a fresh variable and a condition
ParseLhs(lhs) ==
    LET F == ParseFunapp(lhs)
        IsSymbol(v) == Len(v) = 1 /\ v[1] \in KnownVars \cup FunNames \cup {"y"}
        IsNumeric(v) == Len(v) = 1 /\ v[1] \in Numbers
        numeric == IF F.ok THEN SelectSeq(F.args, IsNumeric) ELSE <<>>
    IN  [ok |-> /\ F.ok
                /\ \A i \in DOMAIN F.args :
                      /\ "/" \notin Toks(F.args[i])
                      /\ FromString(F.args[i])
                      /\ \/ IsSymbol(F.args[i]) /\ F.args[i][1] \in KnownVars
                         \/ IsNumeric(F.args[i])
                /\ Len(numeric) <= Len(FreshNames),
         fun |-> F.fun,
         guard |-> [k \in DOMAIN numeric |-> <<FreshNames[k], "==", numeric[k][1]>>]]

\* Problem::parseRhs(rhs): terms.push_back(parseTerm(rhs))
ParseRhs(rhs) == ParseTerm(rhs)

\* parseCost that demands a positive cost of every rule
ParseCostAlways(cost) ==
    IF cost = <<>>
    THEN [ok |-> TRUE, cost |-> <<"1">>, guard |-> <<<<"1", ">", "0">>>>]
    ELSE [ok |-> "/" \notin Toks(cost) /\ IsArithmetic(cost),
          cost |-> cost,
          guard |-> <<cost \o <<">", "0">>>>]

\* Problem::parseCost(cost): the default cost is Expression(1); a cost that
\* is given has to be free of "/" and a polynomial, and
\* newRule.guard.push_back(newRule.cost > 0)
ParseCost(cost) ==
    IF cost = <<>>
    THEN [ok |-> TRUE, cost |-> <<"1">>, guard |-> <<>>]
    ELSE [ok |-> "/" \notin Toks(cost) /\ IsArithmetic(cost),
          cost |-> cost,
          guard |-> <<cost \o <<">", "0">>>>]

\* Problem::parseGuard(guard): the constraints between "/\" and "&&"; TRUE
\* and an empty constraint are passed over, the others have to be free of "/"
ParseGuard(guard) ==
    LET terms == IF guard = <<>> THEN <<>>
                 ELSE SelectSeq(SplitAt(guard, {"/\\", "&&"}),
                                LAMBDA t : t # <<"TRUE">> /\ t # <<>>)
    IN  [ok |-> \A i \in DOMAIN terms :
                    "/" \notin Toks(terms[i]) /\ FromString(terms[i]),
         guard |-> terms]

\* Problem::parseRule(line): the line is split into left-hand side, cost,
\* right-hand side and guard, the four parts are parsed in this order, and
\* rules.push_back(newRule) if none of them threw
ParseRule(line) ==
    LET pos == Find(line, "-{")
        endpos == Find(line, "}>")
        arrow == Find(line, "->")
        split == IF pos # 0 THEN endpos # 0 ELSE arrow # 0
        cost == IF pos = 0 THEN <<>>
                ELSE IF endpos < pos THEN SubSeq(line, pos + 1, Len(line))
                ELSE SubSeq(line, pos + 1, endpos - 1)
        lhs == SubSeq(line, 1, (IF pos # 0 THEN pos ELSE arrow) - 1)
        rest == SubSeq(line, (IF pos # 0 THEN endpos ELSE arrow) + 1, Len(line))
        bracket == Find(rest, "[")
        bar == Find(rest, ":|:")
        guard == IF bracket # 0 THEN SubSeq(rest, bracket + 1, Len(rest) - 1)
                 ELSE IF bar # 0 THEN SubSeq(rest, bar + 1, Len(rest))
                 ELSE <<>>
        call == IF bracket # 0 THEN SubSeq(rest, 1, bracket - 1)
                ELSE IF bar # 0 THEN SubSeq(rest, 1, bar - 1)
                ELSE rest
        com == call # <<>> /\ call[1] \in {"Com_1", "Com_2"}
        com1 == com /\ call[1] = "Com_1" /\ Len(call) > 2 /\ call[2] = "("
                    /\ call[Len(call)] = ")"
        rhs == IF com1 THEN SubSeq(call, 3, Len(call) - 1) ELSE call
        L == ParseLhs(lhs)
        R == ParseRhs(rhs)
        C == ParseCost(cost)
        G == ParseGuard(guard)
        ok == split /\ (com => com1) /\ L.ok /\ R.ok /\ C.ok /\ G.ok
    IN  [kind |-> "rule", ok |-> ok, name |-> <<>>,
         rule |-> IF ok
                  THEN [lhs |-> L.fun, rhs |-> R.tree, cost |-> C.cost,
                        guard |-> L.guard \o C.guard \o G.guard]
                  ELSE NoRule]

\* the arguments, costs and constraints of the input rules
InputExprs == {<<"x">>, <<"1">>, <<"x", "*", "x">>, <<"x", "/", "1">>}

InputConstraints ==
    {e \o <<">", "1">> : e \in InputExprs \ {<<"1">>}}
        \cup {<<"1", ">", "0">>, <<"TRUE">>}

\* the input rules f(e) -> f(e) or f(e) -{ c }> f(e), without a guard or with
\* a guard [ g ] or [ g && g ]
InputLines ==
    LET Funapp(e) == <<"f", "(">> \o e \o <<")">>
        Arrows == {<<"->">>, <<"-{", "}>">>}
                      \cup {<<"-{">> \o c \o <<"}>">> : c \in InputExprs}
        Guards == {<<>>} \cup {<<"[">> \o g \o <<"]">> : g \in InputConstraints}
                      \cup {<<"[">> \o g \o <<"&&">> \o h \o <<"]">> :
                               g \in InputConstraints, h \in InputConstraints}
    IN  {Funapp(l) \o a \o Funapp(r) \o g :
            l \in InputExprs, a \in Arrows, r \in InputExprs, g \in Guards}

\* the parser at work on one word of the VAR declaration or on one line of
\* the RULES block; run() has not started
ParserInit ==
    /\ driver = "Analysis"
    /\ locs = 0
    /\ initial = 0
    /\ rules = {}
    /\ nextIdx = 1
    /\ soft = FALSE
    /\ hard = FALSE
    /\ pc = "loadFromFile"
    /\ changed = FALSE
    /\ acceleratedOnce = FALSE
    /\ nonlinearProblem = FALSE
    /\ acceleratedRules = {}
    /\ node = 0
    /\ accRes = FALSE
    /\ todo = <<>>
    /\ succs = <<>>
    /\ firsts = <<>>
    /\ seconds = <<>>
    /\ res = DefaultResult
    /\ runtime = DefaultResult
    /\ ops = <<>>
    /\ hist = InitHist
    /\ \/ \E n \in InputNames : text = [kind |-> "name", toks |-> n]
       \/ \E l \in InputLines : text = [kind |-> "rule", toks |-> l]
    /\ parsed = NoOut
    /\ loader = NoLoader
    /\ callee = NoCall
    /\ returned = NoCall
    /\ varMan = NoVariables

\* loadFromFile: escapeVarname(escapedname) for a word of the VAR declaration
EscapeVarnameStep ==
    /\ pc = "loadFromFile"
    /\ text.kind = "name"
    /\ parsed = NoOut
    /\ parsed' = [kind |-> "name", ok |-> TRUE, name |-> EscapeVarname(text.toks),
                  rule |-> NoRule]
    /\ UNCHANGED <<analysisVars, text, loader, libVars>>

\* loadFromFile: res.parseRule(line) for a line of the RULES block
ParseRuleStep ==
    /\ pc = "loadFromFile"
    /\ text.kind = "rule"
    /\ parsed = NoOut
    /\ parsed' = ParseRule(text.toks)
    /\ UNCHANGED <<analysisVars, text, loader, libVars>>

ParserNext == EscapeVarnameStep \/ ParseRuleStep

ParserSpec == ParserInit /\ [][ParserNext]_vars

(* ---------------- loadFromFile (src/itrs/itrs.cpp) --------------------- *)

\* cap on the lines of a file
MaxLines == 8

\* run() has not started
AnalysisIdle ==
    /\ driver = "Analysis"
    /\ locs = 0
    /\ initial = 0
    /\ rules = {}
    /\ nextIdx = 1
    /\ soft = FALSE
    /\ hard = FALSE
    /\ pc = "loadFromFile"
    /\ changed = FALSE
    /\ acceleratedOnce = FALSE
    /\ nonlinearProblem = FALSE
    /\ acceleratedRules = {}
    /\ node = 0
    /\ accRes = FALSE
    /\ todo = <<>>
    /\ succs = <<>>
    /\ firsts = <<>>
    /\ seconds = <<>>
    /\ res = DefaultResult
    /\ runtime = DefaultResult
    /\ ops = <<>>
    /\ hist = InitHist

\* the lines of the input files, trimmed: blank, comment, the declarations
\* (some of them malformed), the brackets of the RULES block and rules
BlankLine == <<>>

CommentLine == <<"#", "x">>

VarLine == <<"(", "VAR", "x", ")">>

GoalLine == <<"(", "GOAL", "COMPLEXITY", ")">>

StartLine(f) == <<"(", "STARTTERM", "(", "FUNCTIONSYMBOLS", f, ")", ")">>

ConstructorLine == <<"(", "STARTTERM", "CONSTRUCTOR-BASED", ")">>

RulesLine == <<"(", "RULES">>

CloseLine == <<")">>

RuleLine(v) == <<"f", "(", "x", ")", "->", "f", "(", v, ")">>

FileLines ==
    {BlankLine, CommentLine, VarLine, GoalLine, StartLine("f"), StartLine("g"),
     ConstructorLine, RulesLine, CloseLine, RuleLine("x"), RuleLine("y"),
     <<"(", "VAR", "x">>, <<"(", "OTHER", ")">>,
     <<"(", "STARTTERM", "(", "f", ")", ")">>}

\* if (!has_goal) the RULES block is opened whatever else was declared
MissingGoal(l) == ~l.has_goal

\* if (!has_goal || !has_vars || !has_start)
\*     throw FileError("Missing declarations before RULES-block")
MissingDeclarations(l) == ~l.has_goal \/ ~l.has_vars \/ ~l.has_start

\* throw FileError(...)
FileError(l) == [l EXCEPT !.pc = "FileError"]

\* parseLhs: auto funMapIt = functionSymbolMap.find(fun); a name that is not
\* found gets the index functionSymbols.size(), is put into the map and
\* appended to the list
InternLhs(table, fun) ==
    CHOOSE result \in
        {LET found == {p \in l.functionSymbolMap : p[1] = fun}
             size == Len(l.functionSymbols)
         IN  IF found = {}
             THEN [l EXCEPT !.functionSymbolMap = @ \cup {<<fun, size>>},
                            !.functionSymbols = Append(@, fun),
                            !.occurrences = @ \cup {<<fun, size>>}]
             ELSE [l EXCEPT !.occurrences = @ \cup found] :
            l \in {table}} : TRUE

\* factor: auto it = functionSymbolMap.find(name); a name that is not found
\* gets the index functionSymbols.size() and is appended to the list
\* (functionSymbols.push_back(name)); the map is left as it is
InternCall(table, name) ==
    CHOOSE result \in
        {LET found == {p \in l.functionSymbolMap : p[1] = name}
             size == Len(l.functionSymbols)
         IN  IF found = {}
             THEN [l EXCEPT !.functionSymbols = Append(@, name),
                            !.occurrences = @ \cup {<<name, size>>}]
             ELSE [l EXCEPT !.occurrences = @ \cup found] :
            l \in {table}} : TRUE

\* the function symbols of a right-hand side in the order in which factor()
\* looks them up: the arguments of a call are parsed before its name is
RECURSIVE InternTerm(_, _), InternArgs(_, _)
InternTerm(l, tree) ==
    IF tree.op = "fun" THEN InternCall(InternArgs(l, tree.args), <<tree.name>>)
    ELSE InternArgs(l, tree.args)

InternArgs(l, args) ==
    IF args = <<>> THEN l
    ELSE InternArgs(InternTerm(l, Head(args)), Tail(args))

\* parseRule for a line that is parsed without an exception: parseLhs, then
\* parseRhs, then rules.push_back(newRule)
AddRule(l, rule) ==
    [InternTerm(InternLhs(l, rule.lhs), rule.rhs) EXCEPT
        !.rules = Append(@, rule.lhs),
        !.first = IF l.rules = <<>> THEN l.decls ELSE @]

\* the body of while (getline(file, line)) for one line
LoadLine(l, line) ==
    IF line = <<>> \/ line[1] = "#" THEN l
    ELSE IF l.in_rules
    THEN IF line = CloseLine THEN [l EXCEPT !.in_rules = FALSE]
         ELSE IF ParseRule(line).ok THEN AddRule(l, ParseRule(line).rule)
              ELSE FileError(l)
    ELSE IF line[1] # "(" THEN FileError(l)
    ELSE IF line = RulesLine
    THEN IF MissingDeclarations(l) THEN FileError(l)
         ELSE [l EXCEPT !.in_rules = TRUE]
    ELSE IF line[Len(line)] # ")" THEN FileError(l)
    ELSE IF line = GoalLine
    THEN [l EXCEPT !.has_goal = TRUE, !.decls.goal = @ + 1]
    ELSE IF Len(line) > 1 /\ line[2] = "STARTTERM"
    THEN IF l.has_start THEN FileError(l)
         ELSE IF "CONSTRUCTOR-BASED" \in Toks(line)
              THEN [l EXCEPT !.startTerm = <<>>, !.has_start = TRUE,
                             !.decls.start = @ + 1]
         ELSE IF Find(line, "FUNCTIONSYMBOLS") = 0 THEN FileError(l)
         ELSE [l EXCEPT !.startTerm = <<line[Find(line, "FUNCTIONSYMBOLS") + 1]>>,
                        !.has_start = TRUE, !.decls.start = @ + 1]
    ELSE IF Len(line) > 1 /\ line[2] = "VAR"
    THEN IF l.has_vars THEN FileError(l)
         ELSE [l EXCEPT !.has_vars = TRUE, !.decls.vars = @ + 1]
    ELSE FileError(l)

\* after the loop: at least one rule, and rules for the start term
Loaded(l) ==
    IF l.rules = <<>> THEN FileError(l)
    ELSE IF l.startTerm = <<>>
    THEN [l EXCEPT !.pc = "return", !.startTerm = l.rules[1]]
    ELSE IF l.startTerm \notin Toks(l.rules) THEN FileError(l)
    ELSE [l EXCEPT !.pc = "return"]

\* loadFromFile is called on a file that could be opened
LoaderInit ==
    /\ AnalysisIdle
    /\ text = NoText
    /\ parsed = NoOut
    /\ loader = NewLoader
    /\ callee = NoCall
    /\ returned = NoCall
    /\ varMan = NoVariables

\* getline(file, line) gives the next line of the file
Getline ==
    /\ loader.pc = "getline"
    /\ loader.read < MaxLines
    /\ \E line \in FileLines :
          /\ text' = [kind |-> "line", toks |-> line]
          /\ loader' = [LoadLine(loader, line) EXCEPT !.read = @ + 1]
    /\ UNCHANGED <<analysisVars, parsed, libVars>>

\* getline(file, line) fails: the file is at its end
EndOfFile ==
    /\ loader.pc = "getline"
    /\ text' = [kind |-> "eof", toks |-> <<>>]
    /\ loader' = Loaded(loader)
    /\ UNCHANGED <<analysisVars, parsed, libVars>>

LoaderNext == Getline \/ EndOfFile

LoaderSpec == LoaderInit /\ [][LoaderNext]_vars

\* cap on the rules of a RULES block
MaxRules == 2

\* the lines of a RULES block over the function symbols f and g: the
\* right-hand side is a variable, a call, a call in a call or a sum of calls
RulesBlockLines ==
    LET Funapp(n, e) == <<n, "(">> \o e \o <<")">>
        Calls == {Funapp(n, <<"x">>) : n \in FunNames}
        Rhss == {<<"x">>} \cup Calls
                    \cup {Funapp(n, c) : n \in FunNames, c \in Calls}
                    \cup {c \o <<"+">> \o d : c \in Calls, d \in Calls}
    IN  {c \o <<"->">> \o r : c \in Calls, r \in Rhss}

\* loadFromFile has read the VAR, GOAL and STARTTERM declarations and the
\* line that opens the RULES block
RulesBlockInit ==
    /\ AnalysisIdle
    /\ parsed = NoOut
    /\ callee = NoCall
    /\ returned = NoCall
    /\ varMan = NoVariables
    /\ text = [kind |-> "line", toks |-> RulesLine]
    /\ \E startTerm \in {<<n>> : n \in FunNames} \cup {<<>>} :
          loader = [NewLoader EXCEPT !.has_vars = TRUE, !.has_goal = TRUE,
                                     !.has_start = TRUE, !.in_rules = TRUE,
                                     !.startTerm = startTerm, !.read = 4,
                                     !.decls = [vars |-> 1, start |-> 1, goal |-> 1]]

\* getline(file, line) gives the next line of the RULES block
GetlineInRules ==
    /\ loader.pc = "getline"
    /\ loader.in_rules
    /\ loader.read < MaxLines
    /\ Len(loader.rules) < MaxRules
    /\ \E line \in RulesBlockLines \cup {CloseLine} :
          /\ text' = [kind |-> "line", toks |-> line]
          /\ loader' = [LoadLine(loader, line) EXCEPT !.read = @ + 1]
    /\ UNCHANGED <<analysisVars, parsed, libVars>>

RulesBlockNext == GetlineInRules \/ EndOfFile

RulesBlockSpec == RulesBlockInit /\ [][RulesBlockNext]_vars

(* ------------------ Recurrence (src/meter/recurrence.cpp) --------------- *)

\* the variables have the indices 1..MaxVarIdx
MaxVarIdx == 3

VarIdxs == 1..MaxVarIdx

\* Expressions: numbers, variables, sums and products, and Purrs::Recurrence::n
Ex(op, val, args) == [op |-> op, val |-> val, args |-> args]

Num(c) == Ex("num", c, <<>>)

Var(i) == Ex("var", i, <<>>)

Add(a, b) == Ex("add", 0, <<a, b>>)

Mul(a, b) == Ex("mul", 0, <<a, b>>)

GinacN == Ex("n", 0, <<>>)

\* Expression::getVariableNames, as indices
RECURSIVE VarsOf(_)
VarsOf(e) ==
    IF e.op = "var" THEN {e.val}
    ELSE UNION {VarsOf(e.args[i]) : i \in DOMAIN e.args}

\* e.subs(m) for a map m from variables to expressions
RECURSIVE SubsVars(_, _)
SubsVars(e, m) ==
    IF e.op = "var" THEN IF e.val \in DOMAIN m THEN m[e.val] ELSE e
    ELSE [e EXCEPT !.args = [i \in DOMAIN e.args |-> SubsVars(e.args[i], m)]]

\* every updated variable counts as processed
ReadyAlways(update, k, ordered) == TRUE

\* the updated variables on the right-hand side of k, other than k, are
\* processed: vi != up.first && update.count(vi) > 0 && orderedVars.count(vi) == 0
Ready(update, k, ordered) ==
    \A vi \in VarsOf(update[k]) : ~(vi # k /\ vi \in DOMAIN update /\ vi \notin ordered)

\* for (auto up : update): the variables that are ready are appended
RECURSIVE DependencyPass(_, _, _)
DependencyPass(update, keys, ordering) ==
    IF keys = <<>> THEN ordering
    ELSE IF Head(keys) \notin Toks(ordering) /\ Ready(update, Head(keys), Toks(ordering))
    THEN DependencyPass(update, Tail(keys), Append(ordering, Head(keys)))
    ELSE DependencyPass(update, Tail(keys), ordering)

\* the passes after which dependencyOrder is taken not to terminate
MaxPasses == 2 * MaxVarIdx + 2

\* while (ordering.size() < update.size()): a pass; if it changed nothing, the
\* first variable left is the target, the others are equated to it in
\* addGuard and replaced by it in every right-hand side
RECURSIVE DependencyLoop(_, _, _, _)
DependencyLoop(update, ordering, addGuard, passes) ==
    IF Len(ordering) >= Cardinality(DOMAIN update) \/ passes = MaxPasses
    THEN [fn |-> "dependencyOrder",
          done |-> Len(ordering) >= Cardinality(DOMAIN update),
          ordering |-> ordering, update |-> update, addGuard |-> addGuard]
    ELSE CHOOSE result \in
             {IF next # ordering
              THEN DependencyLoop(update, next, addGuard, passes + 1)
              ELSE LET rest == Ascending(DOMAIN update \ Toks(ordering))
                       target == Head(rest)
                       subs == [k \in Toks(Tail(rest)) |-> Var(target)]
                   IN  DependencyLoop(
                           [k \in DOMAIN update |-> SubsVars(update[k], subs)],
                           ordering,
                           addGuard \o [i \in 1..(Len(rest) - 1) |-> <<target, rest[i + 1]>>],
                           passes + 1) :
                  next \in {DependencyPass(update, Ascending(DOMAIN update), ordering)}} :
                 TRUE

\* Recurrence::dependencyOrder(update): the ordering, the update as it is
\* left, and the constraints added to addGuard
DependencyOrder(update) == DependencyLoop(update, <<>>, <<>>, 0)

\* Purrs::x(Purrs::Recurrence::n - 1)
PurrsLast == Ex("last", 0, <<>>)

\* e.subs(ginacN == k)
At(e, k) == Ex("at", 0, <<e, k>>)

\* the exact solution that Purrs gives for x(n) = rhs with the initial
\* condition x(start) = init
Solution(start, rhs, init) == Ex("solution", start, <<rhs, init>>)

\* res.subs(ginacN == ginacN-1): the value of the variable at n-1
PreRecurrence(solved) == At(solved, Add(GinacN, Num(-1)))

\* findUpdateRecurrence(update, target, result): Purrs::Recurrence rec(rhs) for
\* rhs = update.subs(target == last), rec.set_initial_conditions({{1, update}})
FindUpdateRecurrence(update, target) ==
    Solution(1, SubsVars(update, target :> PurrsLast), update)

\* findCostRecurrence(cost, result): x(n) = x(n-1) + cost with x(0) = 0,
\* cost.subs(knownPreRecurrences) being given
FindCostRecurrence(cost) == Solution(0, Add(PurrsLast, cost), Num(0))

\* the for loop of calcIteratedUpdate over the ordering: unsolved holds the
\* variables for whose recurrence Purrs fails
RECURSIVE IterateUpdate(_, _, _, _, _, _)
IterateUpdate(update, order, meterfunc, unsolved, known, newUpdate) ==
    IF order = <<>> THEN [ok |-> TRUE, known |-> known, newUpdate |-> newUpdate]
    ELSE IF Head(order) \in unsolved
    THEN [ok |-> FALSE, known |-> known, newUpdate |-> newUpdate]
    ELSE IterateUpdate(
             update, Tail(order), meterfunc, unsolved,
             known @@ (Head(order) :>
                 PreRecurrence(
                     FindUpdateRecurrence(SubsVars(update[Head(order)], known),
                                          Head(order)))),
             newUpdate @@ (Head(order) :>
                 At(FindUpdateRecurrence(SubsVars(update[Head(order)], known),
                                         Head(order)),
                    meterfunc)))

\* Recurrence::calcIteratedUpdate(oldUpdate, meterfunc, newUpdate), with the
\* members knownPreRecurrences and addGuard as it leaves them
CalcIteratedUpdate(oldUpdate, meterfunc, unsolved) ==
    CHOOSE result \in
        UNION {{[ok |-> it.ok, known |-> it.known, newUpdate |-> it.newUpdate,
                 addGuard |-> dep.addGuard] :
                   it \in {IterateUpdate(dep.update, dep.ordering, meterfunc, unsolved,
                                         <<>>, <<>>)}} :
                  dep \in {DependencyOrder(oldUpdate)}} : TRUE

\* the cost recurrence that Purrs cannot solve is marked by 0 in unsolved
CostFails(unsolved) == 0 \in unsolved

\* calcIterated that stores the update and the guard before it looks at the cost
CalcIteratedEager(rule, meterfunc, unsolved) ==
    CHOOSE result \in
        {IF ~u.ok THEN [fn |-> "calcIterated", ok |-> FALSE, rule |-> rule]
         ELSE [fn |-> "calcIterated", ok |-> ~CostFails(unsolved),
               rule |-> [update |-> u.newUpdate,
                         cost |-> IF CostFails(unsolved) THEN rule.cost
                                  ELSE At(FindCostRecurrence(SubsVars(rule.cost, u.known)),
                                          meterfunc),
                         guard |-> rule.guard \o u.addGuard]] :
             u \in {CalcIteratedUpdate(rule.update, meterfunc, unsolved)}} : TRUE

\* Recurrence::calcIterated(varMan, rule, meterfunc): false and the rule as it
\* was if calcIteratedUpdate or calcIteratedCost fails, else true and the rule
\* with the iterated update, the iterated cost and addGuard appended to the guard
CalcIterated(rule, meterfunc, unsolved) ==
    CHOOSE result \in
        {IF ~u.ok \/ CostFails(unsolved)
         THEN [fn |-> "calcIterated", ok |-> FALSE, rule |-> rule]
         ELSE [fn |-> "calcIterated", ok |-> TRUE,
               rule |-> [update |-> u.newUpdate,
                         cost |-> At(FindCostRecurrence(SubsVars(rule.cost, u.known)),
                                     meterfunc),
                         guard |-> rule.guard \o u.addGuard]] :
             u \in {CalcIteratedUpdate(rule.update, meterfunc, unsolved)}} : TRUE

\* the right-hand sides of the input updates
UpdateRhss ==
    {Num(1)} \cup {Var(w) : w \in VarIdxs} \cup {Add(Var(w), Num(1)) : w \in VarIdxs}
        \cup {Add(Var(v), Var(w)) : v \in VarIdxs, w \in VarIdxs}

\* the input updates: some of the variables are updated
InputUpdates == UNION {[D -> UpdateRhss] : D \in SUBSET VarIdxs}

\* the input rules: update, cost and guard (pairs <<a, b>> for a == b)
InputLinearRules ==
    {[update |-> u, cost |-> c, guard |-> g] :
        u \in InputUpdates,
        c \in {Num(1), Var(1), Var(MaxVarIdx)},
        g \in {<<>>, <<<<1, 1>>>>}}

\* the metering functions
InputMeterfuncs == {Var(1), Add(Var(2), Num(-1))}

\* what Purrs fails on: nothing, one variable, or the cost
InputUnsolved == {{}} \cup {{v} : v \in 0..MaxVarIdx}

\* a function of Recurrence is called
RecurrenceInit ==
    /\ AnalysisIdle
    /\ text = NoText
    /\ parsed = NoOut
    /\ loader = NoLoader
    /\ \/ \E u \in InputUpdates : callee = [fn |-> "dependencyOrder", update |-> u]
       \/ \E r \in InputLinearRules, m \in InputMeterfuncs, f \in InputUnsolved :
             callee = [fn |-> "calcIterated", rule |-> r, meterfunc |-> m,
                       unsolved |-> f]
    /\ returned = NoCall
    /\ varMan = NoVariables

\* dependencyOrder(update) returns
DependencyOrderStep ==
    /\ callee.fn = "dependencyOrder"
    /\ returned.fn = "none"
    /\ returned' = DependencyOrder(callee.update)
    /\ UNCHANGED <<analysisVars, parserVars, callee, varMan>>

\* calcIterated(varMan, rule, meterfunc) returns
CalcIteratedStep ==
    /\ callee.fn = "calcIterated"
    /\ returned.fn = "none"
    /\ returned' = CalcIterated(callee.rule, callee.meterfunc, callee.unsolved)
    /\ UNCHANGED <<analysisVars, parserVars, callee, varMan>>

\* whichever function of Recurrence was called returns
RecurrenceNext == DependencyOrderStep \/ CalcIteratedStep

RecurrenceSpec == RecurrenceInit /\ [][RecurrenceNext]_vars

(* --------- the variables of a problem (src/itrs/itrs.cpp, its/) ---------- *)

\* cap on the variables of a problem
MaxVariables == 4

\* std::to_string(num) for the numbers the cap allows
to_string(num) == <<<<"1">>, <<"2">>, <<"3">>, <<"4">>, <<"5">>, <<"6">>, <<"7">>,
                   <<"8">>, <<"9">>>>[num]

\* the base names handed to addFreshVariable: names as the parser and the
\* transformations use them, one of which looks like a generated name
Basenames == {<<"x">>, <<"x", "_", "1">>, <<"f", "r", "e", "e">>}

\* getFreshName that tries one suffix only
GetFreshNameOnce(names, basename) ==
    IF basename \notin Toks(names) THEN basename ELSE basename \o <<"_">> \o to_string(1)

\* getFreshName(basename): while (varMap.find(name) != varMap.end())
\*     { name = basename + "_" + to_string(num); num++; }
RECURSIVE FreshNameFrom(_, _, _, _)
FreshNameFrom(names, basename, name, num) ==
    IF name \notin Toks(names) THEN name
    ELSE FreshNameFrom(names, basename, basename \o <<"_">> \o to_string(num), num + 1)

GetFreshName(names, basename) == FreshNameFrom(names, basename, basename, 1)

\* addVariable(name): VariableIndex vi = vars.size(); vars.push_back(name)
AddVariable(vm, name) ==
    [vm EXCEPT !.variables = Append(@, name), !.added.idx = Len(vm.variables)]

VarManInit ==
    /\ AnalysisIdle
    /\ text = NoText
    /\ parsed = NoOut
    /\ loader = NoLoader
    /\ callee = NoCall
    /\ returned = NoCall
    /\ varMan = NoVariables

\* addFreshVariable(basename)
AddFreshVariable ==
    /\ Len(varMan.variables) < MaxVariables
    /\ \E b \in Basenames :
          varMan' = [AddVariable(varMan, GetFreshName(varMan.variables, b))
                        EXCEPT !.added.basename = b]
    /\ UNCHANGED <<analysisVars, parserVars, callee, returned>>

\* addFreshTemporaryVariable(basename); addFreshVariable(basename, true) of Problem
AddFreshTemporaryVariable ==
    /\ Len(varMan.variables) < MaxVariables
    /\ \E b \in Basenames :
          varMan' = [AddVariable(varMan, GetFreshName(varMan.variables, b))
                        EXCEPT !.added.basename = b,
                               !.temporaryVariables = @ \cup {Len(varMan.variables)}]
    /\ UNCHANGED <<analysisVars, parserVars, callee, returned>>

VarManNext == AddFreshVariable \/ AddFreshTemporaryVariable

VarManSpec == VarManInit /\ [][VarManNext]_vars

(* ------------------- Relation (src/expr/relation.cpp) ------------------- *)

\* a GiNaC relational: an expression with an operator and two operands
Rel(op, lhs, rhs) == Ex(op, 0, <<lhs, rhs>>)

Lhs(rel) == rel.args[1]

Rhs(rel) == rel.args[2]

\* isRelation(ex): a relational with two operands that is not a !=
IsRelation(ex) == ex.op \in {"==", "<", "<=", ">", ">="} /\ Len(ex.args) = 2

IsEquality(ex) == IsRelation(ex) /\ ex.op = "=="

IsInequality(ex) == IsRelation(ex) /\ ~IsEquality(ex)

\* replaceLhsRhs(rel, lhs, rhs): the last of the five returns is
\* `return lhs = rhs;`, an assignment to the parameter lhs, whose value is rhs
ReplaceLhsRhs(rel, lhs, rhs) ==
    IF rel.op = "<=" THEN Rel("<=", lhs, rhs)
    ELSE IF rel.op = ">" THEN Rel(">", lhs, rhs)
    ELSE IF rel.op = "<" THEN Rel("<", lhs, rhs)
    ELSE IF rel.op = ">=" THEN Rel(">=", lhs, rhs)
    ELSE rhs

\* transformInequalityLessEq that turns < into <= without the - 1
TransformInequalityLessEqLoose(rel) ==
    IF rel.op \in {">", "<"}
    THEN Rel("<=", IF rel.op = ">" THEN Rhs(rel) ELSE Lhs(rel),
                   IF rel.op = ">" THEN Lhs(rel) ELSE Rhs(rel))
    ELSE IF rel.op = ">=" THEN Rel("<=", Rhs(rel), Lhs(rel))
    ELSE rel

\* transformInequalityLessEq(rel): > and >= are flipped, then
\* lhs < rhs becomes lhs <= rhs - 1
TransformInequalityLessEq(rel) ==
    LET flipped == IF rel.op = ">" THEN Rel("<", Rhs(rel), Lhs(rel))
                   ELSE IF rel.op = ">=" THEN Rel("<=", Rhs(rel), Lhs(rel))
                   ELSE rel
    IN  IF flipped.op = "<"
        THEN Rel("<=", Lhs(flipped), Add(Rhs(flipped), Num(-1)))
        ELSE flipped

\* transformInequalityGreater(rel): < and <= are flipped, then
\* lhs >= rhs becomes lhs + 1 > rhs
TransformInequalityGreater(rel) ==
    LET flipped == IF rel.op = "<" THEN Rel(">", Rhs(rel), Lhs(rel))
                   ELSE IF rel.op = "<=" THEN Rel(">=", Rhs(rel), Lhs(rel))
                   ELSE rel
    IN  IF flipped.op = ">="
        THEN Rel(">", Add(Lhs(flipped), Num(1)), Rhs(flipped))
        ELSE flipped

\* normalizeInequality(rel): (greater.lhs() - greater.rhs()) > 0
NormalizeInequality(rel) ==
    LET greater == TransformInequalityGreater(rel)
    IN  Rel(">", Add(Lhs(greater), Mul(Num(-1), Rhs(greater))), Num(0))

\* negateLessEqInequality(relLessEq): (-lhs) <= (-rhs) - 1
NegateLessEqInequality(relLessEq) ==
    Rel("<=", Mul(Num(-1), Lhs(relLessEq)),
              Add(Mul(Num(-1), Rhs(relLessEq)), Num(-1)))

\* the operands and the relations of the calls
InputOperands == {Num(0), Var(1), Var(2), Add(Var(1), Num(1)), Mul(Var(1), Var(2))}

InputRelations ==
    {Rel(op, l, r) : op \in {"==", "<", "<=", ">", ">="},
                     l \in InputOperands, r \in InputOperands}

\* a function of Relation is called with arguments that pass its assertions
RelationInit ==
    /\ AnalysisIdle
    /\ text = NoText
    /\ parsed = NoOut
    /\ loader = NoLoader
    /\ varMan = NoVariables
    /\ returned = NoCall
    /\ \E rel \in InputRelations :
          \/ /\ IsInequality(rel)
             /\ \E fn \in {"transformInequalityLessEq", "transformInequalityGreater",
                           "normalizeInequality"} :
                   callee = [fn |-> fn, rel |-> rel]
          \/ /\ IsInequality(rel) /\ rel.op = "<="
             /\ callee = [fn |-> "negateLessEqInequality", rel |-> rel]
          \/ /\ IsRelation(rel)
             /\ \E l \in InputOperands, r \in InputOperands :
                   callee = [fn |-> "replaceLhsRhs", rel |-> rel, lhs |-> l, rhs |-> r]

Returns(fn, value) ==
    /\ callee.fn = fn
    /\ returned.fn = "none"
    /\ returned' = [fn |-> fn, value |-> value]
    /\ UNCHANGED <<analysisVars, parserVars, callee, varMan>>

TransformInequalityLessEqStep ==
    Returns("transformInequalityLessEq", TransformInequalityLessEq(callee.rel))

TransformInequalityGreaterStep ==
    Returns("transformInequalityGreater", TransformInequalityGreater(callee.rel))

NormalizeInequalityStep ==
    Returns("normalizeInequality", NormalizeInequality(callee.rel))

NegateLessEqInequalityStep ==
    Returns("negateLessEqInequality", NegateLessEqInequality(callee.rel))

ReplaceLhsRhsStep ==
    Returns("replaceLhsRhs", ReplaceLhsRhs(callee.rel, callee.lhs, callee.rhs))

RelationNext ==
    \/ TransformInequalityLessEqStep
    \/ TransformInequalityGreaterStep
    \/ NormalizeInequalityStep
    \/ NegateLessEqInequalityStep
    \/ ReplaceLhsRhsStep

RelationSpec == RelationInit /\ [][RelationNext]_vars

(* ------------------------------ properties ----------------------------- *)

Last(s) == s[Len(s)]

OpNames == [k \in DOMAIN ops |-> ops[k].op]

Range(s) == {s[k] : k \in DOMAIN s}

\* C1 as stated: whatever the input, the RuntimeResult that run returns never
\* has complexity Unknown.
C1_NeverUnknown == pc = "done" => runtime.cpx # Unknown

\* C1: run returns the default RuntimeResult (complexity Unknown, no bound, no
\* guard) when the ITS is empty after ensureProperInitialLocation and
\* removeUnsatInitialRules, and a result whose complexity is not Unknown for
\* every other input.
C1_UnknownOnlyIfEmpty ==
    pc = "done" => IF hist.empty THEN runtime = DefaultResult
                   ELSE runtime.cpx # Unknown

C1_EmptyReturned == pc = "done" /\ hist.empty /\ runtime.cpx = Unknown

\* C2: from the return of ensureProperInitialLocation to the return of run, no
\* rule of the store has the initial location among its targets.
C2_NoRuleIntoInitial ==
    pc # "ensureProperInitialLocation" => RulesTo(rules, initial) = {}

C2_FreshStartChained ==
    /\ pc = "partialChain"
    /\ initial = MaxLoc + 1
    /\ Cardinality(RulesFrom(rules, initial)) > 1

\* C3: for a non-empty ITS run enters exactly one extractor: getMaxRuntime only
\* with every non-initial location free of outgoing rules and after
\* removeDuplicateRules on the rules leaving the initial location;
\* removeConstantPathsAfterTimeout and then getMaxPartialResult otherwise.
C3_OneExtractor ==
    /\ pc = "getMaxRuntime" => IsFullySimplified /\ hist.dedup
    /\ pc = "removeConstantPathsAfterTimeout" => ~IsFullySimplified /\ ~hist.dedup
    /\ pc \in {"getMaxRuntime", "removeConstantPathsAfterTimeout",
               "getMaxPartialResult"} => hist.extractors = {}
    /\ pc = "maxRuntimeLoop" => hist.extractors = {"getMaxRuntime"}
    /\ pc \in {"partialWhile", "partialScan", "partialChain"}
          => hist.extractors = {"getMaxPartialResult"}
    /\ pc \in {"coerce", "done"} /\ ~hist.empty => Cardinality(hist.extractors) = 1

C3_PartialEntered ==
    /\ pc = "partialWhile"
    /\ hist.extractors = {"getMaxPartialResult"}
    /\ ~IsFullySimplified
    /\ soft

\* C4 as stated: once a checkpoint of the inner loop has seen the soft
\* timeout, no transformation changes the store any more.
C4_NoTransformationAfterSoft ==
    [][(hist.softSeen /\ Len(ops') > Len(ops)) => rules' = rules]_vars

\* C5 as stated: once the hard timeout is up at a checkpoint of the
\* simplification loop, the driver starts no further transformation.
C5_NoTransformationAfterHard ==
    [][hist.hardAtPoll => Len(ops') <= Len(ops)]_vars

\* C5: the simplification loop polls the soft timeout only: it is left only
\* with the soft timeout up or the store fully simplified, however long the
\* hard timeout has been up.
C5_LoopLeftOnSoftOnly == pc = "afterLoop" => soft \/ IsFullySimplified

C5_HardIgnored ==
    /\ pc = "pruneRules"
    /\ hist.hardAtPoll
    /\ ~soft
    /\ driver = "Linear" \/ acceleratedOnce

InnerOrder ==
    (IF nonlinearProblem THEN <<"removeSinkRhss">> ELSE <<>>)
    \o <<"accelerateSimpleLoops", "chainAcceleratedRules",
         "removeLeafsAndUnreachable", "chainLinearPaths">>

InnerPcs == {"removeSinkRhss", "accelerateSimpleLoops", "chainAcceleratedLoops",
             "removeLeafsAndUnreachable", "chainLinearPaths", "whileChanged"}

\* C6: an inner iteration of Analysis::run that no soft timeout cuts short
\* runs removeSinkRhss (if nonlinearProblem), accelerateSimpleLoops,
\* chainAcceleratedRules, removeLeafsAndUnreachable, chainLinearPaths in this
\* order; chainAcceleratedRules gets the rules accelerated in this iteration
\* and keepIncoming = false; the inner loop ends without timeout only after an
\* iteration in which no transformation reported a change.
C6_InnerIteration ==
    driver = "Analysis" =>
        /\ pc \in InnerPcs =>
              /\ Len(ops) <= Len(InnerOrder)
              /\ OpNames = SubSeq(InnerOrder, 1, Len(ops))
        /\ pc \in {"removeLeafsAndUnreachable", "chainLinearPaths", "whileChanged"}
              => hist.chainArg = <<hist.accelNew, FALSE>>
        /\ pc = "whileChanged" =>
              /\ OpNames = InnerOrder
              /\ changed = (\E k \in DOMAIN ops : ops[k].changed)
        /\ pc = "afterInner" /\ ~hist.softSeen =>
              /\ OpNames = InnerOrder
              /\ \A k \in DOMAIN ops : ~ops[k].changed

C6_FullIteration ==
    /\ driver = "Analysis"
    /\ pc = "whileChanged"
    /\ nonlinearProblem
    /\ hist.accelNew # {}
    /\ Len(ops) = Len(InnerOrder)

\* C7 as stated: in an outer iteration in which chainTreePaths succeeds,
\* neither eliminateALocation nor pruneRules is executed.
C7_ContinueAfterTreePaths ==
    \A k \in DOMAIN ops :
        (k < Len(ops) /\ ops[k] = [op |-> "chainTreePaths", changed |-> TRUE])
            => ops[k + 1].op \notin {"eliminateALocation", "pruneRules"}

\* C7: eliminateALocation is executed only right after a chainTreePaths that
\* reported no change; after chainTreePaths or eliminateALocation the
\* iteration goes on to pruneRules, which is left out only by Analysis::run
\* before the first acceleration.
C7_EliminateOnlyAfterFailure ==
    /\ \A k \in DOMAIN ops :
          ops[k].op = "eliminateALocation"
              => k > 1 /\ ops[k - 1] = [op |-> "chainTreePaths", changed |-> FALSE]
    /\ (pc = "while" /\ ops # <<>> /\ Last(ops).op # "pruneRules")
          => driver = "Analysis" /\ ~acceleratedOnce

C7_PrunedAfterTreePaths ==
    /\ Len(ops) > 1
    /\ Last(ops).op = "pruneRules"
    /\ ops[Len(ops) - 1] = [op |-> "chainTreePaths", changed |-> TRUE]

\* C8 as stated: in both drivers pruneRules is executed only after an
\* acceleration step has succeeded.
C8_PruneOnlyAfterAcceleration ==
    \A k \in DOMAIN ops : ops[k].op = "pruneRules" => hist.accelerated

\* C8: Analysis::run executes pruneRules only after accelerateSimpleLoops has
\* succeeded once; LinearITSAnalysis::run executes it in every outer iteration
\* that no soft timeout ends.
C8_PruneInAnalysisOnlyAfterAcceleration ==
    /\ driver = "Analysis"
          => \A k \in DOMAIN ops : ops[k].op = "pruneRules" => hist.accelerated
    /\ (driver = "Linear" /\ pc = "while" /\ ops # <<>>)
          => Last(ops).op = "pruneRules"

C8_AnalysisPruned ==
    /\ driver = "Analysis"
    /\ pc = "while"
    /\ ops # <<>>
    /\ Last(ops).op = "pruneRules"
    /\ hist.accelerated

C10_SkipRespectsTempVars ==
    [][(pc = "maxRuntimeLoop" /\ todo # <<>> /\ todo' # todo)
          => LET rule == RuleAt(rules, Head(todo))
             IN  (rule.idx \notin hist'.submitted)
                    <=> (rule.cpx <= res.cpx /\ ~rule.temp)]_vars

\* C11: with no hard timeout, Analysis::getMaxRuntime returns the highest
\* class the prover answered for a rule leaving the initial location
\* (Unknown if it answered for none), and every rule it did not submit either
\* follows the stop at Infty or has a cost without temporary variables whose
\* class, which bounds the prover's answer, is at most the returned class.
C11_MaximumKept ==
    (driver = "Analysis" /\ pc = "coerce" /\ ~hard
        /\ hist.extractors = {"getMaxRuntime"}) =>
        /\ runtime.cpx = hist.answered
        /\ \A r \in RulesFrom(rules, initial) :
              \/ r.idx \in hist.submitted
              \/ runtime.cpx = Infty
              \/ ~r.temp /\ r.cpx <= runtime.cpx

C11_SkippedAndKept ==
    /\ driver = "Analysis" /\ pc = "coerce" /\ ~hard
    /\ hist.extractors = {"getMaxRuntime"}
    /\ runtime.cpx \in {Poly1, Poly2, Exp}
    /\ hist.submitted # {}
    /\ \E r \in RulesFrom(rules, initial) : r.idx \notin hist.submitted

\* C12: when the extractor that ran yields Unknown, run returns Const with
\* bound 1 and an empty guard; when it yields a higher class, run returns the
\* extractor's complexity, bound and guard as they are.
C12_CoercedOnlyFromUnknown ==
    (pc = "done" /\ ~hist.empty) =>
        runtime = IF res.cpx = Unknown
                  THEN [cpx |-> Const, bound |-> <<"one", 0>>, guard |-> <<"empty", 0>>]
                  ELSE res

C12_UnknownCoerced ==
    /\ pc = "done"
    /\ res.cpx = Unknown
    /\ hist.submitted # {}
    /\ runtime.cpx = Const

\* C13: getMaxPartialResult returns only when the initial location has no
\* successor location, or the best class is Infty, or the hard timeout is up.
C13_PartialReturn ==
    (pc = "coerce" /\ hist.extractors = {"getMaxPartialResult"}) =>
        \/ SuccessorLocations(rules, initial) = {}
        \/ res.cpx = Infty
        \/ hard

C13_ReturnedWithoutSuccessors ==
    /\ pc = "coerce"
    /\ hist.extractors = {"getMaxPartialResult"}
    /\ ~hard
    /\ res.cpx # Infty
    /\ SuccessorLocations(rules, initial) = {}
    /\ rules # {}

\* C14: in getMaxPartialResult every rule the chaining from the start location
\* deletes was evaluated by a scan before (submitted to the prover or skipped).
C14_DeletedAfterScan ==
    [][(pc = "partialChain" /\ rules' # rules /\ rules' \subseteq rules) =>
           \A r \in rules \ rules' : r.idx \in hist.scanned]_vars

C16_PartialOnlyAfterSoft ==
    /\ (pc = "removeConstantPathsAfterTimeout"
            \/ "getMaxPartialResult" \in hist.extractors) => soft
    /\ (pc = "done" /\ ~soft /\ ~hist.empty) =>
            /\ IsFullySimplified
            /\ hist.extractors = {"getMaxRuntime"}

C16_SimplifiedWithoutTimeout ==
    /\ pc = "done"
    /\ ~soft
    /\ hist.extractors = {"getMaxRuntime"}
    /\ hist.accelerated
    /\ runtime.cpx > Const

\* C17: if every transformation and prover call returns and both timeouts are
\* raised at some time, run() returns a result.
C17_RunReturns == <>(pc = "done")

C17_ReturnedAfterTimeouts ==
    /\ pc = "done"
    /\ soft
    /\ hard
    /\ hist.softSeen
    /\ hist.extractors = {"getMaxPartialResult"}

\* C18: the parser rejects every rule that contains a division: a line with
\* a "/" in a left-hand-side argument, in the right-hand-side term, in the
\* cost or in a guard constraint is not parsed into a rule.
C18_DivisionRejected ==
    (parsed.kind = "rule" /\ "/" \in Toks(text.toks)) => ~parsed.ok

\* C19: for every non-empty name, escapeVarname yields a name of alphanumeric
\* characters and "_" that starts with a letter and has no "I": every "I" has
\* become "Q", every other non-alphanumeric character "_", and "q" is put in
\* front iff the first character is not a letter; escaping the result again
\* changes nothing.
C19_EscapedName ==
    parsed.kind = "name" =>
        LET n == text.toks
            e == parsed.name
            k == Len(e) - Len(n)
        IN  /\ \A i \in DOMAIN e : IsAlnum(e[i]) \/ e[i] = "_"
            /\ IsAlpha(e[1])
            /\ "I" \notin Toks(e)
            /\ k = (IF IsAlpha(n[1]) THEN 0 ELSE 1)
            /\ k = 1 => e[1] = "q"
            /\ \A i \in DOMAIN n :
                  e[i + k] = IF n[i] = "I" THEN "Q"
                             ELSE IF IsAlnum(n[i]) THEN n[i]
                             ELSE "_"
            /\ EscapeVarname(e) = e

\* C19 happens: a name that starts with a digit and has an "I" and a "$"
C19_DigitFirstEscaped ==
    /\ parsed.kind = "name"
    /\ text.toks = <<"7", "I", "$">>
    /\ parsed.name = <<"q", "7", "Q", "_">>

\* C20: the guard of a parsed rule is the conditions of the numbers on the
\* left-hand side, then the constraint cost > 0 iff the rule was written with
\* a cost between "-{" and "}>", then the constraints of the written guard; a
\* rule written with "->" has cost 1 and no constraint is added for its cost.
C20_CostConstraint ==
    (parsed.kind = "rule" /\ parsed.ok) =>
        LET line == text.toks
            open == Find(line, "-{")
            close == Find(line, "}>")
            written == IF open # 0 THEN SubSeq(line, open + 1, close - 1) ELSE <<>>
            lhs == SubSeq(line, 1, FindAny(line, {"-{", "->"}) - 1)
            bracket == Find(line, "[")
            guard == IF bracket # 0 THEN SubSeq(line, bracket + 1, Len(line) - 1)
                     ELSE <<>>
        IN  /\ parsed.rule.guard =
                   ParseLhs(lhs).guard
                       \o (IF written # <<>> THEN <<written \o <<">", "0">>>> ELSE <<>>)
                       \o ParseGuard(guard).guard
            /\ parsed.rule.cost = (IF written # <<>> THEN written ELSE <<"1">>)
            /\ Find(line, "->") # 0 =>
                  /\ parsed.rule.cost = <<"1">>
                  /\ Len(parsed.rule.guard)
                         = Len(ParseLhs(lhs).guard) + Len(ParseGuard(guard).guard)

\* C20 happens: a rule with a number on the left-hand side, a written cost
\* and a written guard
C20_CostWritten ==
    /\ parsed.kind = "rule"
    /\ parsed.ok
    /\ text.toks = <<"f", "(", "1", ")", "-{", "x", "*", "x", "}>",
                     "f", "(", "x", ")", "[", "x", ">", "1", "]">>
    /\ parsed.rule.guard = <<<<"x_1", "==", "1">>, <<"x", "*", "x", ">", "0">>,
                             <<"x", ">", "1">>>>

\* C21: in every parsed rule with a written cost, the constraint cost > 0
\* that the parser added is the last element of the guard, where
\* tryToRemoveCost expects it.
C21_CostConstraintLast ==
    (parsed.kind = "rule" /\ parsed.ok /\ Find(text.toks, "-{") # 0
        /\ Find(text.toks, "}>") > Find(text.toks, "-{") + 1) =>
        LET guard == parsed.rule.guard
        IN  guard # <<>> /\ guard[Len(guard)] = parsed.rule.cost \o <<">", "0">>

\* C22: when loadFromFile returns a Problem it has read exactly one VAR
\* declaration, exactly one STARTTERM declaration and at least one
\* (GOAL COMPLEXITY), all of them before the first rule was parsed, and it has
\* parsed at least one rule; a (RULES line before all three declarations, a
\* second VAR or STARTTERM declaration, and the end of a file without rules
\* end in a FileError.
C22_Declarations ==
    [][/\ loader'.pc = "return" =>
             /\ loader'.decls.vars = 1 /\ loader'.first.vars = 1
             /\ loader'.decls.start = 1 /\ loader'.first.start = 1
             /\ loader'.decls.goal >= 1 /\ loader'.first.goal >= 1
             /\ Len(loader'.rules) >= 1
       /\ (text'.kind = "line" /\ ~loader.in_rules) =>
             /\ (/\ text'.toks = RulesLine
                 /\ 0 \in {loader.decls.vars, loader.decls.start, loader.decls.goal})
                    => loader'.pc = "FileError"
             /\ (text'.toks = VarLine /\ loader.decls.vars > 0)
                    => loader'.pc = "FileError"
             /\ (/\ text'.toks \in {StartLine("f"), StartLine("g"), ConstructorLine}
                 /\ loader.decls.start > 0)
                    => loader'.pc = "FileError"
       /\ (text'.kind = "eof" /\ loader.rules = <<>>) => loader'.pc = "FileError"]_vars

\* C22 happens: a file with two (GOAL COMPLEXITY) lines and two rules is loaded
C22_FileLoaded ==
    /\ loader.pc = "return"
    /\ loader.decls = [vars |-> 1, start |-> 1, goal |-> 2]
    /\ loader.first = [vars |-> 1, start |-> 1, goal |-> 1]
    /\ Len(loader.rules) = 2

\* the updated variables that the right-hand side of v mentions, v apart
DependsOn(update, v) == (VarsOf(update[v]) \cap DOMAIN update) \ {v}

\* the updated variables that v depends on, directly or not
RECURSIVE DependsOnTrans(_, _, _)
DependsOnTrans(update, S, seen) ==
    LET new == UNION {DependsOn(update, w) : w \in S} \ seen
    IN  IF new = {} THEN seen ELSE DependsOnTrans(update, new, seen \cup new)

\* v lies on a dependency cycle of the update
OnCycle(update, v) == v \in DependsOnTrans(update, {v}, {})

\* C26: dependencyOrder terminates, and its ordering holds every updated
\* variable exactly once, every v after each other updated variable that the
\* right-hand side of v (as dependencyOrder leaves it) mentions.
C26_DependencyOrder ==
    returned.fn = "dependencyOrder" =>
        LET order == returned.ordering
            Pos(v) == CHOOSE i \in DOMAIN order : order[i] = v
        IN  /\ returned.done
            /\ Toks(order) = DOMAIN callee.update
            /\ Len(order) = Cardinality(DOMAIN callee.update)
            /\ \A v \in DOMAIN returned.update :
                  \A w \in DependsOn(returned.update, v) : Pos(w) < Pos(v)

\* C26 happens: three variables of which the first depends on the third and
\* the third on the second
C26_ChainOrdered ==
    /\ returned.fn = "dependencyOrder"
    /\ callee.update = (1 :> Var(3) @@ 2 :> Add(Var(2), Num(1)) @@ 3 :> Add(Var(2), Var(3)))
    /\ returned.ordering = <<2, 3, 1>>

\* C27: dependencyOrder equates only variables that lie on a dependency cycle
\* of the update; without a cycle it adds no constraint and leaves the update
\* as it is.
C27_OnlyCyclesEquated ==
    returned.fn = "dependencyOrder" =>
        /\ \A i \in DOMAIN returned.addGuard :
              /\ OnCycle(callee.update, returned.addGuard[i][1])
              /\ OnCycle(callee.update, returned.addGuard[i][2])
        /\ (\A v \in DOMAIN callee.update : ~OnCycle(callee.update, v)) =>
              returned.addGuard = <<>> /\ returned.update = callee.update

\* the valuations of the variables
Valuations == [VarIdxs -> 0..2]

\* x(n-1) occurs in the right-hand side of a recurrence
RECURSIVE MentionsLast(_)
MentionsLast(e) ==
    /\ e.op # "solution"
    /\ \/ e.op = "last"
       \/ \E i \in DOMAIN e.args : MentionsLast(e.args[i])

\* The value of an expression for a valuation of the variables, a value of n
\* and a value of x(n-1). An exact solution of x(n) = rhs, x(start) = init has
\* the value of rhs if x(n-1) does not occur in it; otherwise it has the value
\* of init at start, follows the recurrence above start and, the right-hand
\* side being a*x(n-1) + g, the recurrence read backwards below start.
RECURSIVE Eval(_, _, _, _)
Eval(e, val, n, last) ==
    CASE e.op = "num" -> e.val
      [] e.op = "var" -> val[e.val]
      [] e.op = "n" -> n
      [] e.op = "last" -> last
      [] e.op = "add" -> Eval(e.args[1], val, n, last) + Eval(e.args[2], val, n, last)
      [] e.op = "mul" -> Eval(e.args[1], val, n, last) * Eval(e.args[2], val, n, last)
      [] e.op = "at" -> Eval(e.args[1], val, Eval(e.args[2], val, n, last), last)
      [] e.op = "solution" ->
            IF ~MentionsLast(e.args[1]) THEN Eval(e.args[1], val, n, 0)
            ELSE IF n = e.val THEN Eval(e.args[2], val, n, 0)
            ELSE IF n > e.val THEN Eval(e.args[1], val, n, Eval(e, val, n - 1, 0))
            ELSE LET g == Eval(e.args[1], val, n + 1, 0)
                     a == Eval(e.args[1], val, n + 1, 1) - g
                 IN  (Eval(e, val, n + 1, 0) - g) \div a

\* the valuation satisfies the equalities of the guard
Satisfies(val, guard) == \A i \in DOMAIN guard : val[guard[i][1]] = val[guard[i][2]]

\* C23: when calcIterated has solved the recurrences of a rule, the iterated
\* update gives every updated variable the value of the original update where
\* the metering function is 1, and the iterated cost is 0 where the metering
\* function is 0, for the valuations that satisfy the guard of the iterated
\* rule.
C23_IteratedOnce ==
    (returned.fn = "calcIterated" /\ returned.ok) =>
        \A val \in Valuations :
            Satisfies(val, returned.rule.guard) =>
                /\ Eval(callee.meterfunc, val, 0, 0) = 1 =>
                      \A v \in DOMAIN callee.rule.update :
                          Eval(returned.rule.update[v], val, 0, 0)
                              = Eval(callee.rule.update[v], val, 0, 0)
                /\ Eval(callee.meterfunc, val, 0, 0) = 0 =>
                      Eval(returned.rule.cost, val, 0, 0) = 0

\* C25: calcIterated returns false exactly if Purrs fails on the recurrence
\* of an updated variable or of the cost, and then leaves update, cost and
\* guard of the rule as they were; the rule is changed only when both the
\* iterated update and the iterated cost were computed.
C25_FailureKeepsRule ==
    returned.fn = "calcIterated" =>
        /\ returned.ok = (callee.unsolved \cap (DOMAIN callee.rule.update \cup {0}) = {})
        /\ ~returned.ok => returned.rule = callee.rule
        /\ returned.ok =>
              /\ DOMAIN returned.rule.update = DOMAIN callee.rule.update
              /\ returned.rule.cost.op = "at"
              /\ SubSeq(returned.rule.guard, 1, Len(callee.rule.guard)) = callee.rule.guard

\* C25 happens: the update of a cycle is iterated, but the cost is not
C25_CostFailed ==
    /\ returned.fn = "calcIterated"
    /\ ~returned.ok
    /\ callee.unsolved = {0}
    /\ callee.rule.update = (1 :> Var(2) @@ 2 :> Var(1))
    /\ callee.rule.guard = <<<<1, 1>>>>

\* C24: a call of addFreshVariable or addFreshTemporaryVariable appends one
\* variable and leaves the others as they were, its index is the number of
\* variables before the call, no two variables have the same name, and the
\* name is the base name if that was unused and the base name with "_k" for
\* the least k >= 1 that makes it unused otherwise.
C24_FreshVariables ==
    [][LET old == varMan.variables
           new == varMan'.variables
           b == varMan'.added.basename
           name == new[Len(new)]
           Suffixed(k) == b \o <<"_">> \o to_string(k)
       IN  /\ Len(new) = Len(old) + 1
           /\ SubSeq(new, 1, Len(old)) = old
           /\ varMan'.added.idx = Len(old)
           /\ varMan.temporaryVariables \subseteq varMan'.temporaryVariables
           /\ varMan'.temporaryVariables \subseteq 0..Len(old)
           /\ \A i, j \in DOMAIN new : new[i] = new[j] => i = j
           /\ IF b \notin Toks(old) THEN name = b
              ELSE \E k \in 1..(Len(old) + 1) :
                      /\ name = Suffixed(k)
                      /\ \A j \in 1..(k - 1) : Suffixed(j) \in Toks(old)]_vars

\* C24 happens: x_1 is taken when x is asked for a second time, which gets x_2
C24_SuffixSkipped ==
    /\ varMan.variables = <<<<"x">>, <<"x", "_", "1">>, <<"x", "_", "2">>>>
    /\ varMan.added = [basename |-> <<"x">>, idx |-> 2]
    /\ varMan.temporaryVariables = {2}

\* the relation holds for the valuation
Holds(rel, val) ==
    LET l == Eval(Lhs(rel), val, 0, 0)
        r == Eval(Rhs(rel), val, 0, 0)
    IN  CASE rel.op = "==" -> l = r
          [] rel.op = "<" -> l < r
          [] rel.op = "<=" -> l <= r
          [] rel.op = ">" -> l > r
          [] rel.op = ">=" -> l >= r

\* C28: for an inequality, transformInequalityLessEq returns a <= relation,
\* transformInequalityGreater a > relation and normalizeInequality a relation
\* e > 0, each of which holds for the same integer valuations as the
\* inequality; negateLessEqInequality returns a relation that holds exactly
\* where the given <= relation does not.
C28_InequalitiesTransformed ==
    /\ returned.fn = "transformInequalityLessEq" =>
          /\ returned.value.op = "<="
          /\ \A val \in Valuations : Holds(returned.value, val) = Holds(callee.rel, val)
    /\ returned.fn = "transformInequalityGreater" =>
          /\ returned.value.op = ">"
          /\ \A val \in Valuations : Holds(returned.value, val) = Holds(callee.rel, val)
    /\ returned.fn = "normalizeInequality" =>
          /\ returned.value.op = ">" /\ Rhs(returned.value) = Num(0)
          /\ \A val \in Valuations : Holds(returned.value, val) = Holds(callee.rel, val)
    /\ returned.fn = "negateLessEqInequality" =>
          /\ IsInequality(returned.value)
          /\ \A val \in Valuations : Holds(returned.value, val) = ~Holds(callee.rel, val)

\* C28 happens: a strict inequality between a product and a sum was made <=
C28_StrictMadeLessEq ==
    /\ returned.fn = "transformInequalityLessEq"
    /\ callee.rel = Rel(">", Mul(Var(1), Var(2)), Add(Var(1), Num(1)))
    /\ returned.value = Rel("<=", Add(Var(1), Num(1)), Add(Mul(Var(1), Var(2)), Num(-1)))

\* C29: replaceLhsRhs(rel, l, r) returns the relation with the operator of
\* rel, the left-hand side l and the right-hand side r.
C29_OperatorKept ==
    returned.fn = "replaceLhsRhs" =>
        returned.value = Rel(callee.rel.op, callee.lhs, callee.rhs)

\* C30: after any sequence of rules each function symbol name has exactly
\* one index: the list of function symbols holds no name twice, and all
\* occurrences of a name, on left-hand sides and in right-hand sides,
\* got the same index, at which the list holds that name.
C30_OneIndexPerName ==
    /\ \A i, j \in DOMAIN loader.functionSymbols :
          loader.functionSymbols[i] = loader.functionSymbols[j] => i = j
    /\ \A p, q \in loader.occurrences : p[1] = q[1] => p[2] = q[2]
    /\ \A p \in loader.occurrences :
          /\ p[2] < Len(loader.functionSymbols)
          /\ loader.functionSymbols[p[2] + 1] = p[1]

====================================================================
